---------------------------- MODULE Spec2Model ----------------------------
(*************************************************************************)
(* A model of the GameBase64 game organizer (gb64_reorganizer.py,        *)
(* c64_game_organizer.py, gb64_gui.py): the VERSION.NFO parser, the name *)
(* sanitizer, the template driven destination builder, the collision     *)
(* probe, the disk renamer and the organizer front ends.                 *)
(*                                                                       *)
(* Text.  A Python str is a sequence of one-character strings.  The text *)
(* of an info file is a sequence of tokens: a token is one character, or *)
(* one of the keywords the parser's regular expressions look for (a      *)
(* label such as "Name:", a section marker such as "GAME INFO").         *)
(* Explode turns tokens into characters, so every value the parser       *)
(* returns is a plain character sequence.                                *)
(*************************************************************************)
EXTENDS Integers, Sequences, FiniteSets, TLC

VARIABLES
    content,         \* parse_version_nfo: the decoded text of VERSION.NFO
    metadata,        \* the record parse_version_nfo returned (NoRecord: None)
    folder_template, \* build_destination_path: the template
    zip_stem,        \* build_destination_path: zip_path.stem
    game_name,       \* _process_zip_file: the sanitized game name
    dest_path,       \* build_destination_path: its result
    stage,           \* which step of the scenario has been taken
    fs,              \* the file system: what exists at each path
    zips,            \* the archives of source_root, in the order rglob lists them
    options,         \* the arguments of the running organize_games call
    pending,         \* the archives the loop of organize_games has yet to visit
    runs,            \* the organize_games calls made so far
    games_found,     \* self.games_found
    games_moved,     \* self.games_moved
    errors,          \* self.errors
    last,            \* what _process_zip_file did with the last archive
    organized,       \* the paths games were written to, in order
    threads,         \* the GamebaseOrganizationThreads started, in order
    selection,       \* the games selected in the window
    output_queue,    \* the queue from the threads to the window
    cancel_enabled,  \* the Cancel button is enabled
    chosen,          \* the paths the threads' probes returned, in order
    overlap,         \* two threads were between probe and copy at once
    before,          \* rename_disk_files: what the game folder held when called
    folder,          \* rename_disk_files: what the game folder holds
    disk_files,      \* rename_disk_files: the sorted list of image files
    platform,        \* rename_disk_files: what os.rename does to a taken name
    nfo_file,        \* parse_version_nfo: what is at nfo_path
    encoding,        \* parse_version_nfo: the encoding and mode that gave content
    temp_dirs,       \* the temporary directories that exist, by archive
    polling          \* _check_queue is scheduled to run again

parserVars == <<content, metadata>>
pathVars == <<folder_template, zip_stem, game_name, dest_path>>
orgVars ==
    <<fs, zips, options, pending, runs, games_found, games_moved, errors,
      last, organized>>
renameVars == <<before, folder, disk_files, platform>>
ioVars == <<nfo_file, encoding, temp_dirs, polling>>
guiVars ==
    <<threads, selection, output_queue, cancel_enabled, chosen, overlap>>
vars ==
    <<content, metadata, folder_template, zip_stem, game_name, dest_path,
      stage, fs, zips, options, pending, runs, games_found, games_moved,
      errors, last, organized, threads, selection, output_queue,
      cancel_enabled, chosen, overlap, before, folder, disk_files,
      platform, nfo_file, encoding, temp_dirs, polling>>

-----------------------------------------------------------------------------
(* Sequences and strings *)

Min(S) == CHOOSE x \in S : \A y \in S : x <= y
Max(S) == CHOOSE x \in S : \A y \in S : x >= y

\* Python's None for a field value; no character sequence equals it.
None == <<"<None>">>
\* Python's None as the result of parse_version_nfo.
NoRecord == [none |-> TRUE]

Unknown == <<"U", "n", "k", "n", "o", "w", "n">>
Other == <<"O", "t", "h", "e", "r">>
NoText == <<"(", "N", "o", " ", "T", "e", "x", "t", ")">>

\* The keywords of the info text and the characters each stands for.
Chars(tok) ==
    CASE tok = "GAME INFO" -> <<"G", "A", "M", "E", " ", "I", "N", "F", "O">>
      [] tok = "GAME HISTORY" ->
            <<"G", "A", "M", "E", " ", "H", "I", "S", "T", "O", "R", "Y">>
      [] tok = "Name:" -> <<"N", "a", "m", "e", ":">>
      [] tok = "Genre:" -> <<"G", "e", "n", "r", "e", ":">>
      [] tok = "Language:" -> <<"L", "a", "n", "g", "u", "a", "g", "e", ":">>
      [] tok = "Published:" ->
            <<"P", "u", "b", "l", "i", "s", "h", "e", "d", ":">>
      [] tok = "Players:" -> <<"P", "l", "a", "y", "e", "r", "s", ":">>
      [] tok = "Control:" -> <<"C", "o", "n", "t", "r", "o", "l", ":">>
      [] tok = "Pal/NTSC:" -> <<"P", "a", "l", "/", "N", "T", "S", "C", ":">>
      [] tok = "Unique-ID:" ->
            <<"U", "n", "i", "q", "u", "e", "-", "I", "D", ":">>
      [] tok = "Developer:" ->
            <<"D", "e", "v", "e", "l", "o", "p", "e", "r", ":">>
      [] tok = "Coding:" -> <<"C", "o", "d", "i", "n", "g", ":">>
      [] tok = "Graphics:" -> <<"G", "r", "a", "p", "h", "i", "c", "s", ":">>
      [] tok = "Music:" -> <<"M", "u", "s", "i", "c", ":">>
      [] tok = "Comment:" -> <<"C", "o", "m", "m", "e", "n", "t", ":">>
      [] OTHER -> <<tok>>

RECURSIVE Explode(_)
Explode(s) == IF s = <<>> THEN <<>> ELSE Chars(Head(s)) \o Explode(Tail(s))

\* \s of the regular expressions, and the characters str.strip() removes.
IsSpace(c) == c \in {" ", "\n", "\t"}

RECURSIVE LStrip(_)
LStrip(s) ==
    IF s # <<>> /\ IsSpace(Head(s)) THEN LStrip(Tail(s)) ELSE s

RECURSIVE RStrip(_)
RStrip(s) ==
    IF s # <<>> /\ IsSpace(s[Len(s)])
    THEN RStrip(SubSeq(s, 1, Len(s) - 1))
    ELSE s

\* str.strip()
Strip(s) == RStrip(LStrip(s))

\* The first index >= i of s that holds no whitespace; Len(s)+1 if none.
WsRunEnd(s, i) ==
    LET stops == {j \in i..Len(s) : ~IsSpace(s[j])}
    IN  IF stops = {} THEN Len(s) + 1 ELSE Min(stops)

\* The last index of the line that holds index j (the newline excluded).
Eol(s, j) ==
    LET nls == {k \in j..Len(s) : s[k] = "\n"}
    IN  IF nls = {} THEN Len(s) ELSE Min(nls) - 1

\* An optional value: <<>> is "no match", <<v>> is a match with value v.
NoMatch == <<>>
Matched(m) == m # <<>>

-----------------------------------------------------------------------------
(* parse_version_nfo: the regular expressions *)

\* re.search(r'GAME INFO(.*?)(?:GAME HISTORY|$)', content, re.DOTALL): the
\* text after the first GAME INFO up to the next GAME HISTORY, or up to the
\* place where $ matches without re.MULTILINE (the end of the text, or just
\* before a newline that ends the text); the whole text without the marker.
GameInfoSection(s) ==
    LET starts == {i \in 1..Len(s) : s[i] = "GAME INFO"}
    IN  IF starts = {} THEN s
        ELSE LET b == Min(starts) + 1
                 ends == {e \in (b - 1)..Len(s) :
                             \/ e = Len(s)
                             \/ s[e + 1] = "GAME HISTORY"
                             \/ e = Len(s) - 1 /\ s[Len(s)] = "\n"}
             IN  SubSeq(s, b, Min(ends))

\* The tail \s*(.+?)$ of every single-line pattern, tried at index i (the
\* index after the label) under re.MULTILINE: \s* takes the whole run of
\* whitespace, newlines included, and gives characters back only when no
\* character is left for the group; the group then runs to the end of its
\* line.  The result is the group's span <<from, to>>, or <<>>.
ValueSpanAt(s, i) ==
    LET j == WsRunEnd(s, i)
        back == {k \in i..Len(s) : s[k] # "\n"}
    IN  IF j <= Len(s) THEN <<j, Eol(s, j)>>
        ELSE IF back = {} THEN <<>>
        ELSE <<Max(back), Eol(s, Max(back))>>

\* match.group(1).strip() of re.search(r'<label>\s*(.+?)$', s, re.MULTILINE):
\* the leftmost occurrence of the label at which the pattern matches; the
\* label may stand anywhere in a line.
FieldSearch(s, label) ==
    LET hits == {i \in 1..Len(s) :
                    s[i] = label /\ ValueSpanAt(s, i + 1) # <<>>}
    IN  IF hits = {} THEN NoMatch
        ELSE LET sp == ValueSpanAt(s, Min(hits) + 1)
             IN  <<Strip(Explode(SubSeq(s, sp[1], sp[2])))>>

\* ^\s* before a label at index i under re.MULTILINE: some line start p <= i
\* has nothing but whitespace between it and the label.
AtLineStart(s, i) ==
    \E p \in 1..i :
        /\ p = 1 \/ s[p - 1] = "\n"
        /\ \A k \in p..(i - 1) : IsSpace(s[k])

\* NameSearch without the anchor ^\s* : Name: anywhere in a line.
NameSearchUnanchored(s) ==
    LET hits == {i \in 1..Len(s) :
                    s[i] = "Name:" /\ ValueSpanAt(s, i + 1) # <<>>}
    IN  IF hits = {} THEN NoMatch
        ELSE LET sp == ValueSpanAt(s, Min(hits) + 1)
             IN  <<Strip(Explode(SubSeq(s, sp[1], sp[2])))>>

\* re.search(r'^\s*Name:\s*(.+?)$', game_info, re.MULTILINE)
NameSearch(s) ==
    LET hits == {i \in 1..Len(s) :
                    /\ s[i] = "Name:"
                    /\ AtLineStart(s, i)
                    /\ ValueSpanAt(s, i + 1) # <<>>}
    IN  IF hits = {} THEN NoMatch
        ELSE LET sp == ValueSpanAt(s, Min(hits) + 1)
             IN  <<Strip(Explode(SubSeq(s, sp[1], sp[2])))>>

\* (?:\n\s+[^\n]+)* of the genre pattern, from the end e of what is matched
\* so far: a newline, at least one whitespace character (a newline is one),
\* then the rest of a line; repeated as often as it matches.
RECURSIVE GenreContinuation(_, _)
GenreContinuation(s, e) ==
    IF e + 1 > Len(s) \/ s[e + 1] # "\n" THEN e
    ELSE LET w == WsRunEnd(s, e + 2)
             back == {k \in (e + 3)..Len(s) : s[k] # "\n"}
         IN  IF w = e + 2 THEN e
             ELSE IF w <= Len(s) THEN GenreContinuation(s, Eol(s, w))
             ELSE IF back = {} THEN e
             ELSE GenreContinuation(s, Eol(s, Max(back)))

\* The span of group 1 of Genre:\s*([^\n]+(?:\n\s+[^\n]+)*) tried at index i
\* (the index after the label), or <<>>.
GenreSpanAt(s, i) ==
    LET j == WsRunEnd(s, i)
        back == {k \in i..Len(s) : s[k] # "\n"}
    IN  IF j <= Len(s) THEN <<j, GenreContinuation(s, Eol(s, j))>>
        ELSE IF back = {} THEN <<>>
        ELSE <<Max(back), GenreContinuation(s, Eol(s, Max(back)))>>

\* re.sub(r'\s+', ' ', text): every run of whitespace becomes one space.
RECURSIVE CollapseSpace(_)
CollapseSpace(s) ==
    IF s = <<>> THEN <<>>
    ELSE IF IsSpace(Head(s))
         THEN <<" ">> \o CollapseSpace(LStrip(s))
         ELSE <<Head(s)>> \o CollapseSpace(Tail(s))

\* genre_text: group 1 of the genre pattern searched in the whole content,
\* whitespace collapsed and stripped.
GenreSearch(s) ==
    LET hits == {i \in 1..Len(s) :
                    s[i] = "Genre:" /\ GenreSpanAt(s, i + 1) # <<>>}
    IN  IF hits = {} THEN NoMatch
        ELSE LET sp == GenreSpanAt(s, Min(hits) + 1)
             IN  <<Strip(CollapseSpace(Explode(SubSeq(s, sp[1], sp[2]))))>>

-----------------------------------------------------------------------------
(* parse_version_nfo: the composite fields and the record *)

\* The indices at which ' - ' starts in s.
DashAt(s) ==
    {k \in 1..(Len(s) - 2) : s[k] = " " /\ s[k + 1] = "-" /\ s[k + 2] = " "}

\* genre_text.rsplit(' - ', 1) in the place of split: cut at the last ' - '.
SplitGenreLast(genre_text) ==
    IF DashAt(genre_text) # {}
    THEN LET k == Max(DashAt(genre_text))
         IN  [primary |-> Strip(SubSeq(genre_text, 1, k - 1)),
              secondary |-> Strip(SubSeq(genre_text, k + 3, Len(genre_text)))]
    ELSE [primary |-> genre_text, secondary |-> Other]

\* primary_genre, secondary_genre = genre_text.split(' - ', 1), stripped;
\* the whole text and 'Other' without the separator.
SplitGenre(genre_text) ==
    IF DashAt(genre_text) # {}
    THEN LET k == Min(DashAt(genre_text))
         IN  [primary |-> Strip(SubSeq(genre_text, 1, k - 1)),
              secondary |-> Strip(SubSeq(genre_text, k + 3, Len(genre_text)))]
    ELSE [primary |-> genre_text, secondary |-> Other]

Digits == {"0", "1", "2", "3", "4", "5", "6", "7", "8", "9"}

\* len(first_part) == 4 and all(c.isdigit() or c == '?' for c in first_part)
LooksLikeYear(first_part) ==
    /\ Len(first_part) = 4
    /\ \A k \in 1..4 : first_part[k] \in Digits \/ first_part[k] = "?"

\* The split without the year test: the first word is always the year.
SplitPublishedUngated(pub_text) ==
    LET t == Strip(pub_text)
        stops == {k \in 1..Len(t) : IsSpace(t[k])}
        cut == IF stops = {} THEN Len(t) + 1 ELSE Min(stops)
        rest == LStrip(SubSeq(t, cut, Len(t)))
    IN  IF t = <<>> THEN [year |-> Unknown, publisher |-> Unknown]
        ELSE [year |-> SubSeq(t, 1, cut - 1),
              publisher |-> IF rest = <<>> THEN Unknown ELSE rest]

\* pub_text.split(None, 1) and the year test: the first word is the year
\* only if it has the shape of one, and then the rest is the publisher;
\* otherwise the whole value is the publisher.
SplitPublished(pub_text) ==
    LET t == Strip(pub_text)
        stops == {k \in 1..Len(t) : IsSpace(t[k])}
        cut == IF stops = {} THEN Len(t) + 1 ELSE Min(stops)
        first_part == SubSeq(t, 1, cut - 1)
        rest == LStrip(SubSeq(t, cut, Len(t)))
    IN  IF t = <<>> THEN [year |-> Unknown, publisher |-> Unknown]
        ELSE IF LooksLikeYear(first_part)
        THEN [year |-> first_part,
              publisher |-> IF rest = <<>> THEN Unknown ELSE rest]
        ELSE [year |-> Unknown, publisher |-> t]

\* A field without its default: the match's value, or None.
OrNone(m, default) == IF Matched(m) THEN m[1] ELSE None

\* A field with a default: the match's value, or the default.
OrDefault(m, default) == IF Matched(m) THEN m[1] ELSE default

\* GamebaseOrganizer.parse_version_nfo on the decoded text: name and the six
\* credit fields are searched in the GAME INFO section, genre, language,
\* published, players, control and Pal/NTSC in the whole content.
ParseVersionNfo(text) ==
    LET game_info == GameInfoSection(text)
        name_match == NameSearch(game_info)
        genre_match == GenreSearch(text)
        genre == SplitGenre(genre_match[1])
        pub_match == FieldSearch(text, "Published:")
        pub == IF Matched(pub_match) THEN SplitPublished(pub_match[1])
               ELSE [year |-> Unknown, publisher |-> Unknown]
    IN  IF text = <<>> THEN NoRecord
        ELSE IF ~Matched(name_match) THEN NoRecord
        ELSE IF ~Matched(genre_match) THEN NoRecord
        ELSE [name |-> name_match[1],
              primary_genre |-> genre.primary,
              secondary_genre |-> genre.secondary,
              language |-> OrDefault(FieldSearch(text, "Language:"), NoText),
              published_year |-> pub.year,
              publisher |-> pub.publisher,
              players |-> OrDefault(FieldSearch(text, "Players:"), Unknown),
              control |-> OrDefault(FieldSearch(text, "Control:"), Unknown),
              pal_ntsc |-> OrDefault(FieldSearch(text, "Pal/NTSC:"), Unknown),
              unique_id |-> OrDefault(FieldSearch(game_info, "Unique-ID:"), None),
              developer |-> OrDefault(FieldSearch(game_info, "Developer:"), None),
              coding |-> OrDefault(FieldSearch(game_info, "Coding:"), None),
              graphics |-> OrDefault(FieldSearch(game_info, "Graphics:"), None),
              music |-> OrDefault(FieldSearch(game_info, "Music:"), None),
              comment |-> OrDefault(FieldSearch(game_info, "Comment:"), None)]

\* C64GameOrganizer.parse_version_nfo: the same name, genre and language
\* patterns, and a record of four keys.
ParseVersionNfoC64(text) ==
    LET game_info == GameInfoSection(text)
        name_match == NameSearch(game_info)
        genre_match == GenreSearch(text)
        genre == SplitGenre(genre_match[1])
    IN  IF ~Matched(name_match) THEN NoRecord
        ELSE IF ~Matched(genre_match) THEN NoRecord
        ELSE [name |-> name_match[1],
              primary_genre |-> genre.primary,
              secondary_genre |-> genre.secondary,
              language |-> OrDefault(FieldSearch(text, "Language:"), NoText)]

-----------------------------------------------------------------------------
(* sanitize_folder_name *)

RECURSIVE ReplaceChars(_, _, _)
\* re.sub of a character class by one character
ReplaceChars(s, class, by) ==
    IF s = <<>> THEN <<>>
    ELSE <<IF Head(s) \in class THEN by ELSE Head(s)>>
            \o ReplaceChars(Tail(s), class, by)

RECURSIVE RemoveChars(_, _)
\* re.sub of a character class by the empty string
RemoveChars(s, class) ==
    IF s = <<>> THEN <<>>
    ELSE (IF Head(s) \in class THEN <<>> ELSE <<Head(s)>>)
            \o RemoveChars(Tail(s), class)

RECURSIVE StripChars(_, _)
\* str.strip(chars)
StripChars(s, chars) ==
    IF s # <<>> /\ Head(s) \in chars THEN StripChars(Tail(s), chars)
    ELSE IF s # <<>> /\ s[Len(s)] \in chars
         THEN StripChars(SubSeq(s, 1, Len(s) - 1), chars)
         ELSE s

Separators == {"\\", "/"}
Brackets == {"[", "]"}
InvalidChars == {"<", ">", ":", "\"", "|", "?", "*"}

\* The sanitizer with the strip as its first step instead of its last.
SanitizeStripFirst(name) ==
    RemoveChars(RemoveChars(
        ReplaceChars(StripChars(name, {".", " "}), Separators, "-"),
        Brackets), InvalidChars)

\* The sanitizer without the bracket rule.
SanitizeKeepBrackets(name) ==
    StripChars(RemoveChars(ReplaceChars(name, Separators, "-"), InvalidChars),
               {".", " "})

\* GamebaseOrganizer.sanitize_folder_name
SanitizeFolderName(name) ==
    LET dashed == ReplaceChars(name, Separators, "-")
        unbracketed == RemoveChars(dashed, Brackets)
        valid == RemoveChars(unbracketed, InvalidChars)
    IN  StripChars(valid, {".", " "})

\* C64GameOrganizer.sanitize_folder_name: no separator or bracket rule.
SanitizeFolderNameC64(name) ==
    StripChars(RemoveChars(name, InvalidChars), {".", " "})

-----------------------------------------------------------------------------
(* pathlib *)

\* A path is the sequence of its segments, each a character sequence; an
\* absolute path starts with the segment Slash.  Segments are cut at '/',
\* as pathlib does where the organizer runs on a POSIX system.
Slash == <<"/">>

RECURSIVE SplitSlash(_)
\* str.split('/')
SplitSlash(s) ==
    LET cuts == {k \in 1..Len(s) : s[k] = "/"}
    IN  IF cuts = {} THEN <<s>>
        ELSE <<SubSeq(s, 1, Min(cuts) - 1)>>
                \o SplitSlash(SubSeq(s, Min(cuts) + 1, Len(s)))

\* The segments pathlib keeps of a string: empty and '.' segments vanish.
Segments(s) ==
    SelectSeq(SplitSlash(s), LAMBDA seg : seg # <<>> /\ seg # <<".">>)

\* The root of an absolute string: '/', or '//' for exactly two slashes.
Anchor(s) ==
    IF Len(s) >= 2 /\ s[2] = "/" /\ (Len(s) = 2 \/ s[3] # "/")
    THEN <<"/", "/">> ELSE Slash

\* base / s : a string that starts with '/' replaces the base.
JoinPath(base, s) ==
    IF s # <<>> /\ Head(s) = "/" THEN <<Anchor(s)>> \o Segments(s)
    ELSE base \o Segments(s)

\* Path.parent
Parent(path) ==
    IF Len(path) <= 1 THEN path ELSE SubSeq(path, 1, Len(path) - 1)

-----------------------------------------------------------------------------
(* build_destination_path *)

\* The keys of subs.
ValidFields ==
    {"name", "primary_genre", "secondary_genre", "language",
     "published_year", "publisher", "players", "control", "pal_ntsc",
     "developer", "coding", "graphics", "music", "comment", "unique_id"}

\* A template is a sequence of items: a literal character, or a replacement
\* field "{...}".  FieldOf gives the field name of a replacement field.
FieldOf ==
    [t \in {"{" \o f \o "}" : f \in ValidFields \cup {"bogus", "0", ""}} |->
        CHOOSE f \in ValidFields \cup {"bogus", "0", ""} : t = "{" \o f \o "}"]

IsField(item) == item \in DOMAIN FieldOf

\* str.format looks a field name made of digits, or an empty one, up in
\* the positional arguments, and every other name in the keywords.
IsPositional(f) == f \in {"0", ""}

\* A lookup that takes only None for missing.
GetOrUnlessNone(md, key, default) ==
    IF key \in DOMAIN md /\ md[key] # None THEN md[key] ELSE default

\* metadata.get(key) or default
GetOr(md, key, default) ==
    IF key \in DOMAIN md /\ md[key] # None /\ md[key] # <<>>
    THEN md[key] ELSE default

\* subs of build_destination_path; stem is zip_path.stem.
Subs(md, stem) ==
    [name |-> SanitizeFolderName(GetOr(md, "name", stem)),
     primary_genre |-> SanitizeFolderName(GetOr(md, "primary_genre", Unknown)),
     secondary_genre |-> SanitizeFolderName(GetOr(md, "secondary_genre", Other)),
     language |-> SanitizeFolderName(GetOr(md, "language", Unknown)),
     published_year |->
        ReplaceChars(GetOr(md, "published_year", Unknown), {"?"}, "x"),
     publisher |-> SanitizeFolderName(GetOr(md, "publisher", Unknown)),
     players |-> SanitizeFolderName(GetOr(md, "players", Unknown)),
     control |-> SanitizeFolderName(GetOr(md, "control", Unknown)),
     pal_ntsc |-> SanitizeFolderName(GetOr(md, "pal_ntsc", Unknown)),
     developer |-> SanitizeFolderName(GetOr(md, "developer", Unknown)),
     coding |-> SanitizeFolderName(GetOr(md, "coding", Unknown)),
     graphics |-> SanitizeFolderName(GetOr(md, "graphics", Unknown)),
     music |-> SanitizeFolderName(GetOr(md, "music", Unknown)),
     comment |-> SanitizeFolderName(GetOr(md, "comment", Unknown)),
     unique_id |-> GetOr(md, "unique_id", Unknown)]

RECURSIVE Format(_, _)
\* template.format(**subs) of a template whose fields are all keys of subs
Format(template, subs) ==
    IF template = <<>> THEN <<>>
    ELSE (IF IsField(Head(template)) THEN subs[FieldOf[Head(template)]]
          ELSE <<Head(template)>>)
            \o Format(Tail(template), subs)

\* The replacement fields of a template that str.format cannot resolve,
\* by index.
BadFields(template) ==
    {k \in 1..Len(template) :
        IsField(template[k]) /\ FieldOf[template[k]] \notin ValidFields}

\* build_destination_path: the path, or the exception it raises.  str.format
\* stops at the first field it cannot resolve: a KeyError for a name, which
\* becomes the ValueError that names it and lists the valid fields, and an
\* IndexError, which is not caught, for a positional field.
BuildDestinationPath(template, md, stem, root) ==
    IF BadFields(template) = {}
    THEN [kind |-> "path",
          path |-> JoinPath(root, Format(template, Subs(md, stem)))]
    ELSE LET f == FieldOf[template[Min(BadFields(template))]]
         IN  IF IsPositional(f) THEN [kind |-> "IndexError"]
             ELSE [kind |-> "ValueError",
                   invalid_field |-> f,
                   valid_fields |-> DOMAIN Subs(md, stem)]

-----------------------------------------------------------------------------
(* Scenario 1: parse_version_nfo on every short text *)

MaxTokens == 5

TokenAlphabet ==
    {"Name:", "Genre:", "GAME INFO", "GAME HISTORY", "\n", " ", "a"}

TokenTexts == UNION {[1..n -> TokenAlphabet] : n \in 0..MaxTokens}

NoPath == [kind |-> "none"]

PathIdle ==
    /\ folder_template = <<>>
    /\ zip_stem = <<>>
    /\ game_name = <<>>
    /\ dest_path = NoPath

NoLast == [outcome |-> "none"]

\* No organizer has been constructed.
OrgIdle ==
    /\ fs = <<>>
    /\ zips = <<>>
    /\ options = <<>>
    /\ pending = <<>>
    /\ runs = 0
    /\ games_found = 0
    /\ games_moved = 0
    /\ errors = <<>>
    /\ last = NoLast
    /\ organized = <<>>

\* rename_disk_files has not been called.
RenameIdle ==
    /\ before = <<>>
    /\ folder = <<>>
    /\ disk_files = <<>>
    /\ platform = "posix"

\* No file is being read, no temporary directory exists, and the window's
\* poll is scheduled as __init__ leaves it.
IoIdle ==
    /\ nfo_file = <<>>
    /\ encoding = <<>>
    /\ temp_dirs = {}
    /\ polling = TRUE

\* No window is open.
GuiIdle ==
    /\ threads = <<>>
    /\ selection = <<>>
    /\ output_queue = <<>>
    /\ cancel_enabled = FALSE
    /\ chosen = <<>>
    /\ overlap = FALSE

TokensInit ==
    /\ stage = "input"
    /\ content \in TokenTexts
    /\ metadata = NoRecord
    /\ PathIdle
    /\ OrgIdle
    /\ GuiIdle
    /\ RenameIdle
    /\ IoIdle

\* GamebaseOrganizer.parse_version_nfo returns.
ParseNfo ==
    /\ stage = "input"
    /\ metadata' = ParseVersionNfo(content)
    /\ stage' = "parsed"
    /\ UNCHANGED <<ioVars, renameVars, content, pathVars, orgVars, guiVars>>

\* C64GameOrganizer.parse_version_nfo returns.
ParseNfoC64 ==
    /\ stage = "input"
    /\ metadata' = ParseVersionNfoC64(content)
    /\ stage' = "parsed_c64"
    /\ UNCHANGED <<ioVars, renameVars, content, pathVars, orgVars, guiVars>>

TokensNext == ParseNfo \/ ParseNfoC64

SpecTokens == TokensInit /\ [][TokensNext]_vars

Parsed == stage \in {"parsed", "parsed_c64"}

-----------------------------------------------------------------------------
(* What the claims say of a text, stated on its lines *)

\* The section of a text: what follows the first GAME INFO, up to the next
\* GAME HISTORY or the end; the whole text without GAME INFO.
RECURSIVE UpToHistory(_)
UpToHistory(s) ==
    IF s = <<>> \/ Head(s) = "GAME HISTORY" THEN <<>>
    ELSE <<Head(s)>> \o UpToHistory(Tail(s))

RECURSIVE AfterInfo(_)
AfterInfo(s) ==
    IF s = <<>> THEN <<>>
    ELSE IF Head(s) = "GAME INFO" THEN Tail(s)
    ELSE AfterInfo(Tail(s))

HasMarker(s) == \E i \in 1..Len(s) : s[i] = "GAME INFO"

SectionOf(s) == IF HasMarker(s) THEN UpToHistory(AfterInfo(s)) ELSE s

\* The lines of a text.
RECURSIVE LinesOf(_)
LinesOf(s) ==
    LET nls == {k \in 1..Len(s) : s[k] = "\n"}
    IN  IF nls = {} THEN <<s>>
        ELSE <<SubSeq(s, 1, Min(nls) - 1)>>
                \o LinesOf(SubSeq(s, Min(nls) + 1, Len(s)))

\* A line whose first token after its indentation is the label.
StartsWith(line, label) ==
    LET body == StripChars(line, {" ", "\t"})
    IN  body # <<>> /\ Head(body) = label

HasNameLine(s) ==
    \E k \in 1..Len(LinesOf(s)) : StartsWith(LinesOf(s)[k], "Name:")

HasGenreField(s) == \E i \in 1..Len(s) : s[i] = "Genre:"

\* C1: parse_version_nfo returns no record - None, never a partly filled
\* record - for every text whose section has no line that starts (after
\* its indentation) with Name:, and for every text without a Genre: field.
C1_NoNameOrNoGenreGivesNone ==
    (Parsed /\ (~HasNameLine(SectionOf(content)) \/ ~HasGenreField(content)))
        => metadata = NoRecord

\* A text with a Genre: field and a Name: label that starts no line of the
\* section has been parsed to None.
C1_Witness ==
    /\ Parsed
    /\ HasGenreField(content)
    /\ \E i \in 1..Len(content) : content[i] = "Name:"
    /\ ~HasNameLine(SectionOf(content))
    /\ metadata = NoRecord

-----------------------------------------------------------------------------
(* Scenario 2: the destination of one parsed record under one template *)

MaxValueLen == 2

PathAlphabet == {"a", "/", "\\", ".", "?", "[", " "}

\* The values a single-line field of a parsed record can have: stripped
\* text of one line.
FieldValues ==
    {v \in UNION {[1..n -> PathAlphabet] : n \in 0..MaxValueLen} :
        Strip(v) = v}

\* published_year is 'Unknown' or has passed the year test.
YearValues ==
    {Unknown, <<"1", "9", "8", "7">>, <<"1", "9", "8", "?">>,
     <<"?", "?", "?", "?">>}

OptionalFields ==
    {"unique_id", "developer", "coding", "graphics", "music", "comment"}

\* The record of a plain info file.
BaseRecord ==
    ParseVersionNfo(<<"Name:", " ", "Z", "\n",
                      "Genre:", " ", "A", " ", "-", " ", "P">>)

\* The values parse_version_nfo can give field f.
ValuesOf(f) ==
    IF f = "published_year" THEN YearValues
    ELSE IF f \in OptionalFields THEN FieldValues \cup {None}
    ELSE IF f \in {"publisher", "secondary_genre"} THEN FieldValues \ {<<>>}
    ELSE FieldValues

\* The plain record with one field given any value the parser can give it.
Records ==
    UNION {{[BaseRecord EXCEPT ![f] = v] : v \in ValuesOf(f)} :
              f \in ValidFields}

DefaultTemplate ==
    <<"{primary_genre}", "/", "{secondary_genre}", "/", "{language}", "/",
      "{name}">>

\* Templates of the front ends' help texts, one whose last segment puts
\* text before the name, one template for each field, and templates with a
\* field that is not a key of subs.
Templates ==
    {DefaultTemplate,
     <<"{published_year}", "/", "{primary_genre}", "/", "{name}">>,
     <<"{primary_genre}", "/", "{language}", "/", "{name}">>,
     <<"{publisher}", " ", "-", " ", "{name}">>,
     <<"{bogus}", "/", "{name}">>,
     <<"{name}", "/", "{bogus}">>,
     <<"{0}", "/", "{name}">>,
     <<"{}", "/", "{name}">>}
    \cup {<<"{" \o f \o "}", "/", "{name}">> : f \in ValidFields \ {"name"}}

Stems == {<<"g">>, <<"s", "t">>}

\* self.destination_root
Root == <<Slash, <<"D">>>>

PathInit ==
    /\ stage = "input"
    /\ content = <<>>
    /\ metadata \in Records
    /\ folder_template \in Templates
    /\ zip_stem \in Stems
    /\ game_name = <<>>
    /\ dest_path = NoPath
    /\ OrgIdle
    /\ GuiIdle
    /\ RenameIdle
    /\ IoIdle

\* game_name of _process_zip_file
GameName(md, stem) == SanitizeFolderName(GetOr(md, "name", stem))

\* _process_zip_file, from the parsed record to dest_path: the game name,
\* then build_destination_path.
ResolveDestination ==
    /\ stage = "input"
    /\ game_name' = GameName(metadata, zip_stem)
    /\ dest_path' =
          BuildDestinationPath(folder_template, metadata, zip_stem, Root)
    /\ stage' = "built"
    /\ UNCHANGED <<ioVars, renameVars, content, metadata, folder_template, zip_stem, orgVars,
                   guiVars>>

PathNext == ResolveDestination

SpecPath == PathInit /\ [][PathNext]_vars

Built == stage = "built" /\ dest_path.kind = "path"

\* The directory levels a template writes.
Levels(template) ==
    Cardinality({k \in 1..Len(template) : template[k] = "/"}) + 1

IsPrefix(p, q) == Len(p) <= Len(q) /\ SubSeq(q, 1, Len(p)) = p

\* C2: the destination keeps exactly the directory levels of the template
\* beneath the destination root; no metadata value adds or drops a level or
\* brings in a '..' segment.
C2_ValuesKeepTemplateLevels ==
    Built =>
        /\ IsPrefix(Root, dest_path.path)
        /\ Len(dest_path.path) = Len(Root) + Levels(folder_template)
        /\ \A k \in 1..Len(dest_path.path) : dest_path.path[k] # <<".", ".">>

ForbiddenChars == Separators \cup Brackets \cup InvalidChars

\* C3: no segment of the destination beneath the root holds a character
\* the sanitizer forbids.
C3_NoForbiddenCharInSegment ==
    Built =>
        \A k \in 2..Len(dest_path.path) :
            \A i \in 1..Len(dest_path.path[k]) :
                dest_path.path[k][i] \notin ForbiddenChars

\* The replacement fields of a template that name no valid placeholder.
UnknownPlaceholders(template) ==
    {k \in 1..Len(template) :
        /\ template[k] \in DOMAIN FieldOf
        /\ FieldOf[template[k]] \notin ValidFields}

\* C7: a template with a placeholder that is not a valid name gives the
\* ValueError that names the placeholder and lists the valid names.
C7_UnknownPlaceholderGivesValueError ==
    (stage = "built" /\ UnknownPlaceholders(folder_template) # {}) =>
        /\ dest_path.kind = "ValueError"
        /\ \E k \in UnknownPlaceholders(folder_template) :
              dest_path.invalid_field = FieldOf[folder_template[k]]
        /\ dest_path.valid_fields = ValidFields

\* C9: the game-name segment is never empty; a name that is missing or
\* empty once sanitized gives way to the archive's stem.
C9_NameSegmentNeverEmpty ==
    stage = "built" =>
        /\ game_name # <<>>
        /\ (metadata.name = <<>> \/ SanitizeFolderName(metadata.name) = <<>>)
              => game_name = SanitizeFolderName(zip_stem)

-----------------------------------------------------------------------------
(* Scenario 3: parse_version_nfo on info files made of whole lines *)

MaxLines == 5

\* The labels of the single-value fields, by record key; the value of
\* Published: fills published_year and publisher.
LabelOf ==
    [language |-> "Language:", publisher |-> "Published:",
     players |-> "Players:", control |-> "Control:",
     pal_ntsc |-> "Pal/NTSC:", unique_id |-> "Unique-ID:",
     developer |-> "Developer:", coding |-> "Coding:",
     graphics |-> "Graphics:", music |-> "Music:", comment |-> "Comment:"]

\* The lines of an info file that carries the label: the two markers, a
\* name, a genre, and the label with either of two values.
LinePool(label) ==
    {<<"GAME INFO">>, <<"GAME HISTORY">>,
     <<"Name:", " ", "Z">>, <<"Genre:", " ", "A">>,
     <<label, " ", "a">>, <<label, " ", "b">>}

RECURSIVE JoinLines(_)
\* Every line followed by its newline.
JoinLines(lines) ==
    IF lines = <<>> THEN <<>>
    ELSE Head(lines) \o <<"\n">> \o JoinLines(Tail(lines))

LinesInit ==
    /\ stage = "input"
    /\ \E f \in DOMAIN LabelOf, n \in 0..MaxLines :
          \E ls \in [1..n -> LinePool(LabelOf[f])] : content = JoinLines(ls)
    /\ metadata = NoRecord
    /\ PathIdle
    /\ OrgIdle
    /\ GuiIdle
    /\ RenameIdle
    /\ IoIdle

LinesNext == ParseNfo \/ ParseNfoC64

SpecLines == LinesInit /\ [][LinesNext]_vars

\* The value of the first line of the lines ls that starts with the label:
\* what follows the label, stripped.
RECURSIVE FirstValue(_, _)
FirstValue(ls, label) ==
    IF ls = <<>> THEN NoMatch
    ELSE IF StartsWith(Head(ls), label)
         THEN <<Strip(Explode(Tail(StripChars(Head(ls), {" ", "\t"}))))>>
         ELSE FirstValue(Tail(ls), label)

\* The value the section of the text gives the label.
SectionValue(text, label) == FirstValue(LinesOf(SectionOf(text)), label)

\* The default of a record key whose label is absent.
DefaultOf(f) ==
    IF f = "language" THEN NoText
    ELSE IF f \in OptionalFields THEN None
    ELSE Unknown

\* C10: with a GAME INFO marker in the text, every single-value field of
\* the record is the value its label has in the section (or the default
\* when the section has no such line); a labelled line before GAME INFO or
\* after GAME HISTORY decides nothing.
C10_FieldsComeFromSection ==
    (stage = "parsed" /\ metadata # NoRecord /\ HasMarker(content)) =>
        \A f \in DOMAIN LabelOf :
            metadata[f] =
                OrDefault(SectionValue(content, LabelOf[f]), DefaultOf(f))

-----------------------------------------------------------------------------
(* The file system the organizers write to *)

\* What exists at a path: a directory or a file.  `of` numbers the organized
\* game whose copy the entry is (0: made by mkdir, or the log file).
Dir == [kind |-> "dir", of |-> 0]
LogFile == [kind |-> "file", of |-> 0]

\* The path and its ancestors.
Ancestors(path) == {SubSeq(path, 1, k) : k \in 1..Len(path)}

\* Path.exists()
Exists(f, path) == path \in DOMAIN f

\* Path.mkdir(parents=True, exist_ok=True): fails when the path or an
\* ancestor is a file.
MkdirParents(f, path) ==
    IF \E q \in Ancestors(path) : Exists(f, q) /\ f[q].kind # "dir"
    THEN [ok |-> FALSE, fs |-> f]
    ELSE [ok |-> TRUE,
          fs |-> [q \in DOMAIN f \cup Ancestors(path) |->
                     IF Exists(f, q) THEN f[q] ELSE Dir]]

\* shutil.copytree(src, dst) of game n: os.makedirs(dst) raises
\* FileExistsError when dst exists.
CopyTree(f, dst, n) ==
    IF Exists(f, dst) \/ ~MkdirParents(f, Parent(dst)).ok
    THEN [ok |-> FALSE, fs |-> f]
    ELSE [ok |-> TRUE,
          fs |-> [q \in DOMAIN f \cup {dst} |->
                     IF q = dst THEN [kind |-> "dir", of |-> n] ELSE f[q]]]

\* shutil.copy2(src, dst) and shutil.move(src, dst) of the archive of game
\* n, named zip_name: an existing file at dst is replaced, an existing
\* directory at dst receives the file under the archive's own name.
CopyFile(f, dst, zip_name, n) ==
    LET target ==
            IF Exists(f, dst) /\ f[dst].kind = "dir"
            THEN dst \o <<zip_name>> ELSE dst
    IN  IF \/ ~Exists(f, Parent(target))
           \/ f[Parent(target)].kind # "dir"
           \/ (Exists(f, target) /\ f[target].kind = "dir")
        THEN [ok |-> FALSE, fs |-> f]
        ELSE [ok |-> TRUE,
              fs |-> [q \in DOMAIN f \cup {target} |->
                         IF q = target THEN [kind |-> "file", of |-> n]
                         ELSE f[q]]]

DecimalDigits == <<"0", "1", "2", "3", "4", "5", "6", "7", "8", "9">>

RECURSIVE Decimal(_)
\* str(n)
Decimal(n) ==
    IF n < 10 THEN <<DecimalDigits[n + 1]>>
    ELSE Decimal(n \div 10) \o <<DecimalDigits[(n % 10) + 1]>>

\* f" [v{version}]"
VersionSuffix(version) == <<" ", "[", "v">> \o Decimal(version) \o <<"]">>

ZipSuffix == <<".", "z", "i", "p">>

\* The versioned path of the probe: base / f"{name} [v{version}]{tail}"
Versioned(base, name, tail, version) ==
    JoinPath(base, name \o VersionSuffix(version) \o tail)

\* The collision probe without its existence test.
ProbeFreeNoCheck(f, candidate, base, name, tail) == candidate

\* The collision probe: final_dest, and from version 2 on the versioned
\* path, until a path does not exist.  Among any Cardinality(DOMAIN f) + 1
\* different paths one does not exist.
ProbeFree(f, candidate, base, name, tail) ==
    IF ~Exists(f, candidate) THEN candidate
    ELSE Versioned(base, name, tail,
            Min({version \in 2..(Cardinality(DOMAIN f) + 2) :
                    ~Exists(f, Versioned(base, name, tail, version))}))

-----------------------------------------------------------------------------
(* Scenario 4: organize_games, run after run on one destination root *)

MaxRuns == 2
MaxZips == 2

UpperCase ==
    <<"A", "B", "C", "D", "E", "F", "G", "H", "I", "J", "K", "L", "M",
      "N", "O", "P", "Q", "R", "S", "T", "U", "V", "W", "X", "Y", "Z">>
LowerCase ==
    <<"a", "b", "c", "d", "e", "f", "g", "h", "i", "j", "k", "l", "m",
      "n", "o", "p", "q", "r", "s", "t", "u", "v", "w", "x", "y", "z">>

\* str.lower()
Lower(s) ==
    [i \in 1..Len(s) |->
        IF \E k \in 1..26 : UpperCase[k] = s[i]
        THEN LowerCase[CHOOSE k \in 1..26 : UpperCase[k] = s[i]]
        ELSE s[i]]

\* sub in s
Contains(s, sub) ==
    \E i \in 0..(Len(s) - Len(sub)) : SubSeq(s, i + 1, i + Len(sub)) = sub

\* A directory at nfo_path: rglob('VERSION.NFO') yields directories too.
IsADirectory == <<"<dir>">>

\* The archives of the source directory.  An archive has a stem, can or
\* cannot be extracted, and holds a VERSION.NFO or none; the VERSION.NFO of
\* g7 is a directory.
ArchivePool ==
    [g1 |-> [stem |-> <<"g", "1">>, readable |-> TRUE, has_nfo |-> TRUE,
             nfo |-> <<"Name:", " ", "Z", "\n",
                       "Genre:", " ", "A", " ", "-", " ", "P", "\n",
                       "Language:", " ", "E", "n", "g", "l", "i", "s", "h",
                       "\n",
                       "Published:", " ", "1", "9", "8", "7", " ", "O", "/",
                       "X", "\n">>],
     g2 |-> [stem |-> <<"g", "2">>, readable |-> TRUE, has_nfo |-> TRUE,
             nfo |-> <<"GAME INFO", "\n", "Name:", " ", "Z", "\n",
                       "Genre:", " ", "A", " ", "-", " ", "P", "\n",
                       "Language:", " ", "E", "n", "g", "l", "i", "s", "h",
                       "\n",
                       "Published:", " ", "1", "9", "8", "7", " ", "O", " ",
                       "-", " ", "X", "\n">>],
     g3 |-> [stem |-> <<"g", "3">>, readable |-> TRUE, has_nfo |-> TRUE,
             nfo |-> <<"Name:", " ", "?", "\n",
                       "Genre:", " ", "A", " ", "-", " ", "P", "\n",
                       "Language:", " ", "G", "e", "r", "m", "a", "n",
                       "\n">>],
     g4 |-> [stem |-> <<"g", "4">>, readable |-> TRUE, has_nfo |-> TRUE,
             nfo |-> <<"Genre:", " ", "A", "\n">>],
     g5 |-> [stem |-> <<"g", "5">>, readable |-> TRUE, has_nfo |-> FALSE,
             nfo |-> <<>>],
     g6 |-> [stem |-> <<"g", "6">>, readable |-> FALSE, has_nfo |-> FALSE,
             nfo |-> <<>>],
     g7 |-> [stem |-> <<"g", "7">>, readable |-> TRUE, has_nfo |-> TRUE,
             nfo |-> IsADirectory]]

\* What rglob('*.zip') can list: up to MaxZips archives in any order.
Listings ==
    {l \in UNION {[1..n -> DOMAIN ArchivePool] : n \in 0..MaxZips} :
        \A i, j \in 1..Len(l) : i # j => l[i] # l[j]}

\* zip_path.name
ZipName(zip) == ArchivePool[zip].stem \o ZipSuffix

\* The arguments of organize_games.
Options(template, move, english, no_text, collapse, zipped) ==
    [program |-> "gb64", folder_template |-> template, move_files |-> move,
     english_only |-> english, include_no_text |-> no_text,
     collapse_publishers |-> collapse, keep_zipped |-> zipped]

\* C64GameOrganizer.organize_games has move_files alone.
OptionsC64 ==
    [program |-> "c64", folder_template |-> DefaultTemplate,
     move_files |-> FALSE, english_only |-> FALSE,
     include_no_text |-> FALSE, collapse_publishers |-> FALSE,
     keep_zipped |-> FALSE]

\* The calls made of organize_games.
Calls ==
    {Options(DefaultTemplate, FALSE, FALSE, FALSE, FALSE, FALSE),
     Options(DefaultTemplate, TRUE, FALSE, FALSE, FALSE, FALSE),
     Options(DefaultTemplate, FALSE, FALSE, FALSE, FALSE, TRUE),
     Options(DefaultTemplate, TRUE, FALSE, FALSE, FALSE, TRUE),
     Options(DefaultTemplate, FALSE, TRUE, FALSE, FALSE, FALSE),
     Options(DefaultTemplate, FALSE, TRUE, TRUE, FALSE, FALSE),
     Options(<<"{publisher}", " ", "-", " ", "{name}">>,
             FALSE, FALSE, FALSE, TRUE, FALSE),
     Options(<<"{primary_genre}">>, FALSE, FALSE, FALSE, FALSE, FALSE),
     Options(<<"{bogus}", "/", "{name}">>,
             FALSE, FALSE, FALSE, FALSE, FALSE),
     OptionsC64}

\* collapse_publishers of _process_zip_file
CollapsePublisher(md) ==
    LET publisher == md.publisher
        cut(sep) == Strip(SubSeq(publisher, 1,
                        Min({k \in 1..Len(publisher) : publisher[k] = sep})
                            - 1))
    IN  IF publisher = None \/ publisher = <<>> THEN md
        ELSE IF Contains(publisher, <<"/">>)
             THEN [md EXCEPT !.publisher = cut("/")]
        ELSE IF Contains(publisher, <<"\\">>)
             THEN [md EXCEPT !.publisher = cut("\\")]
        ELSE md

\* The English-only filter of _process_zip_file: TRUE when the game is
\* skipped.
NotEnglish(md, include_no_text) ==
    LET language == IF md.language = None THEN <<>> ELSE md.language
        has_english ==
            Contains(Lower(language), <<"e", "n", "g", "l", "i", "s", "h">>)
        is_no_text == Contains(Lower(language), Lower(NoText))
    IN  ~has_english /\ ~(include_no_text /\ is_no_text)

\* ends_with_name of _process_zip_file.  str.strip() of a template takes
\* blanks off its ends; replace(' ', '') takes the spaces out.
EndsWithName(template) ==
    LET template_stripped == SelectSeq(template, LAMBDA item : item # " ")
    IN  /\ template_stripped # <<>>
        /\ template_stripped[Len(template_stripped)] = "{name}"

\* What _process_zip_file reports of an archive it does not organize.
Unorganized(f, outcome, error) ==
    [outcome |-> outcome, error |-> error, fs |-> f,
     candidate |-> <<>>, final |-> <<>>]

\* The copy into the directories mkdir has made: copytree of the game
\* folder, or copy2 / move of the archive.
Copied(made, outcome, candidate, final, zip_name, n) ==
    LET copied == IF outcome = "extracted" THEN CopyTree(made.fs, final, n)
                  ELSE CopyFile(made.fs, final, zip_name, n)
    IN  IF ~made.ok THEN Unorganized(made.fs, "raised", "")
        ELSE IF ~copied.ok THEN Unorganized(made.fs, "raised", "")
        ELSE [outcome |-> outcome, error |-> "", fs |-> copied.fs,
              candidate |-> candidate, final |-> final]

\* final_dest.parent.mkdir, then the copy, for a resolved destination.
Written(f, outcome, candidate, final, zip_name, n) ==
    Copied(MkdirParents(f, Parent(final)), outcome, candidate, final,
           zip_name, n)

\* The keep_zipped branch of _process_zip_file: the archive goes into
\* dest_path under the game's name.
KeepZipped(f, zip, move_files, n, name, dest) ==
    Written(f, IF move_files THEN "moved" ELSE "copied",
            JoinPath(dest, name \o ZipSuffix),
            ProbeFree(f, JoinPath(dest, name \o ZipSuffix), dest, name,
                      ZipSuffix),
            ZipName(zip), n)

\* The extract branch of _process_zip_file: the game folder becomes
\* dest_path, or a folder of the game's name in it.
Extracted(f, zip, ends_with_name, n, name, dest) ==
    Written(f, "extracted",
            IF ends_with_name THEN dest ELSE JoinPath(dest, name),
            ProbeFree(f,
                      IF ends_with_name THEN dest ELSE JoinPath(dest, name),
                      IF ends_with_name THEN Parent(dest) ELSE dest,
                      name, <<>>),
            ZipName(zip), n)

\* _process_zip_file once game_name and dest_path are known; an exception
\* of build_destination_path is not caught.
Placed(f, zip, opt, n, name, built) ==
    IF built.kind # "path" THEN Unorganized(f, "raised", "")
    ELSE IF opt.keep_zipped
    THEN KeepZipped(f, zip, opt.move_files, n, name, built.path)
    ELSE Extracted(f, zip, EndsWithName(opt.folder_template), n, name,
                   built.path)

\* _process_zip_file from the English-only filter on.
Filtered(f, zip, opt, n, md) ==
    IF opt.english_only /\ NotEnglish(md, opt.include_no_text)
    THEN Unorganized(f, "not_english", "")
    ELSE Placed(f, zip, opt, n, GameName(md, ArchivePool[zip].stem),
                BuildDestinationPath(opt.folder_template, md,
                                     ArchivePool[zip].stem, Root))

\* _process_zip_file from the parsed record on.
ParsedRecord(f, zip, opt, n, parsed) ==
    IF parsed = NoRecord
    THEN Unorganized(f, "unparsed", "Could not parse metadata")
    ELSE Filtered(f, zip, opt, n,
                  IF opt.collapse_publishers THEN CollapsePublisher(parsed)
                  ELSE parsed)

\* GamebaseOrganizer._process_zip_file on archive zip, the n-th game to be
\* organized if it is.
ProcessZip(f, zip, opt, n) ==
    IF ~ArchivePool[zip].readable
    THEN Unorganized(f, "extract_failed", "Failed to extract")
    ELSE IF ~ArchivePool[zip].has_nfo
    THEN Unorganized(f, "no_nfo", "No VERSION.NFO")
    ELSE IF ArchivePool[zip].nfo = IsADirectory
    THEN Unorganized(f, "parse_raised", "Could not parse metadata")
    ELSE ParsedRecord(f, zip, opt, n, ParseVersionNfo(ArchivePool[zip].nfo))

\* C64GameOrganizer._process_zip_file once the names are sanitized: the
\* fixed layout.
PlacedC64(f, zip, n, name, base) ==
    Written(f, "extracted", JoinPath(base, name),
            ProbeFree(f, JoinPath(base, name), base, name, <<>>),
            ZipName(zip), n)

\* C64GameOrganizer._process_zip_file from the parsed record on.
ParsedC64(f, zip, n, md) ==
    IF md = NoRecord
    THEN Unorganized(f, "unparsed", "Could not parse metadata")
    ELSE PlacedC64(f, zip, n, SanitizeFolderNameC64(md.name),
            JoinPath(JoinPath(JoinPath(Root,
                SanitizeFolderNameC64(md.primary_genre)),
                SanitizeFolderNameC64(md.secondary_genre)),
                SanitizeFolderNameC64(md.language)))

\* C64GameOrganizer._process_zip_file
ProcessZipC64(f, zip, n) ==
    IF ~ArchivePool[zip].readable
    THEN Unorganized(f, "extract_failed", "Failed to extract")
    ELSE IF ~ArchivePool[zip].has_nfo
    THEN Unorganized(f, "no_nfo", "No VERSION.NFO")
    ELSE IF ArchivePool[zip].nfo = IsADirectory
    THEN Unorganized(f, "parse_raised", "Could not parse metadata")
    ELSE ParsedC64(f, zip, n, ParseVersionNfoC64(ArchivePool[zip].nfo))

\* "organization_log.txt"
LogName ==
    <<"o", "r", "g", "a", "n", "i", "z", "a", "t", "i", "o", "n", "_",
      "l", "o", "g", ".", "t", "x", "t">>

\* Before the first run the file system holds its root directory only.
OrgInit ==
    /\ stage = "idle"
    /\ content = <<>>
    /\ metadata = NoRecord
    /\ PathIdle
    /\ fs = [q \in {<<Slash>>} |-> Dir]
    /\ zips \in Listings
    /\ options = <<>>
    /\ pending = <<>>
    /\ runs = 0
    /\ games_found = 0
    /\ games_moved = 0
    /\ errors = <<>>
    /\ last = NoLast
    /\ organized = <<>>
    /\ GuiIdle
    /\ RenameIdle
    /\ IoIdle

\* A new organizer is constructed and organize_games is called on an
\* existing source directory: the destination root is made, the log file is
\* opened for writing, and the archives are listed.
OrganizeGames ==
    /\ stage = "idle"
    /\ runs < MaxRuns
    /\ \E opt \in Calls : options' = opt
    /\ runs' = runs + 1
    /\ games_found' = 0
    /\ games_moved' = 0
    /\ errors' = <<>>
    /\ LET made == MkdirParents(fs, Root)
           log == Root \o <<LogName>>
       IN  IF made.ok /\ (Exists(made.fs, log) => made.fs[log].kind = "file")
           THEN /\ fs' = [q \in DOMAIN made.fs \cup {log} |->
                             IF q = log THEN LogFile ELSE made.fs[q]]
                /\ pending' = zips
                /\ stage' = "running"
           ELSE /\ fs' = made.fs
                /\ pending' = <<>>
                /\ stage' = "idle"
    /\ UNCHANGED <<ioVars, renameVars, parserVars, pathVars, zips, last, organized, guiVars>>

\* "Failed to parse ..."
FailedToParse == "Failed to parse"

\* What _process_zip_file and the functions it calls append to self.errors:
\* open() of a directory raises inside parse_version_nfo, whose handler
\* records "Failed to parse" before _process_zip_file records the None.
ErrorsOf(r) ==
    IF r.error = "" THEN <<>>
    ELSE IF r.outcome = "parse_raised" THEN <<FailedToParse, r.error>>
    ELSE <<r.error>>

\* The temporary directories left once _process_zip_file is over.  mkdtemp
\* has made the directory before extractall raises, and extract_zip_to_temp
\* returns None without removing it; on every later path the finally
\* clause removes it.
TempDirsLeft(dirs, r, run, zip) ==
    IF r.outcome = "extract_failed"
    THEN dirs \cup {[run |-> run, zip |-> zip]}
    ELSE dirs

\* One turn of the loop of organize_games: the next archive is counted and
\* processed.  An exception leaves organize_games and ends the run.
ProcessArchive(r) ==
    LET zip == Head(pending)
        written == r.outcome \in {"extracted", "copied", "moved"}
    IN  /\ games_found' = games_found + 1
        /\ fs' = r.fs
        /\ errors' = errors \o ErrorsOf(r)
        /\ temp_dirs' = TempDirsLeft(temp_dirs, r, runs, zip)
        /\ games_moved' = IF written THEN games_moved + 1 ELSE games_moved
        /\ organized' = IF written THEN Append(organized, r.final)
                        ELSE organized
        /\ last' = [outcome |-> r.outcome, zip |-> zip,
                    options |-> options, candidate |-> r.candidate,
                    final |-> r.final, before |-> fs]
        /\ zips' = IF r.outcome = "moved"
                   THEN SelectSeq(zips, LAMBDA z : z # zip) ELSE zips
        /\ pending' = IF r.outcome = "raised" THEN <<>> ELSE Tail(pending)
        /\ stage' = IF r.outcome = "raised" THEN "idle" ELSE stage
        /\ UNCHANGED <<nfo_file, encoding, polling, renameVars, parserVars,
                       pathVars, options, runs, guiVars>>

ProcessZipFile ==
    /\ stage = "running"
    /\ pending # <<>>
    /\ options.program = "gb64"
    /\ ProcessArchive(ProcessZip(fs, Head(pending), options,
                                 Len(organized) + 1))

ProcessZipFileC64 ==
    /\ stage = "running"
    /\ pending # <<>>
    /\ options.program = "c64"
    /\ ProcessArchive(ProcessZipC64(fs, Head(pending), Len(organized) + 1))

\* The loop is over: the summary is written and the log file closed.
Summary ==
    /\ stage = "running"
    /\ pending = <<>>
    /\ stage' = "idle"
    /\ UNCHANGED <<ioVars, renameVars, parserVars, pathVars, orgVars, guiVars>>

OrgNext == OrganizeGames \/ ProcessZipFile \/ ProcessZipFileC64 \/ Summary

Spec == OrgInit /\ [][OrgNext]_vars

\* The last archive was organized: its game was written.
Organized == last.outcome \in {"extracted", "copied", "moved"}

\* C4: whatever organize operations have run one after the other on the
\* destination root, the last game organized was written to a path that did
\* not exist when its probe returned, everything that existed before it is
\* still there as it was, and every organized game is still at its own path,
\* no two at the same one.
C4_NoDestinationOverwritten ==
    /\ Organized =>
          /\ ~Exists(last.before, last.final)
          /\ \A q \in DOMAIN last.before :
                Exists(fs, q) /\ fs[q] = last.before[q]
    /\ \A i \in 1..Len(organized) :
          Exists(fs, organized[i]) /\ fs[organized[i]].of = i
    /\ \A i, j \in 1..Len(organized) :
          i # j => organized[i] # organized[j]

\* A game has been written beside an earlier game that holds its candidate
\* path.
C4_Witness ==
    /\ Organized
    /\ Exists(last.before, last.candidate)
    /\ last.before[last.candidate].of > 0
    /\ last.final # last.candidate
    /\ fs[last.final].of = Len(organized)
    /\ fs[last.candidate].of = last.before[last.candidate].of

\* The candidate with " [vN]" appended to its last segment.
Suffixed(candidate, version) ==
    Parent(candidate)
        \o <<candidate[Len(candidate)] \o VersionSuffix(version)>>

\* C5: a game extracted while its candidate path exists goes to the
\* candidate with " [vN]" appended to its last segment, N the smallest
\* number from 2 on whose path does not exist.
C5_SuffixOnLastSegment ==
    (last.outcome = "extracted" /\ Exists(last.before, last.candidate)) =>
        last.final =
            Suffixed(last.candidate,
                Min({version \in 2..(Cardinality(DOMAIN last.before) + 2) :
                        ~Exists(last.before,
                                Suffixed(last.candidate, version))}))

-----------------------------------------------------------------------------
(* Scenario 5: the window and its organization threads *)

MaxThreads == 2
MaxSelected == 2

\* The selections Organize accepts: at least one game.
Selections ==
    {l \in UNION {[1..n -> {"g1", "g2", "g3", "g4"}] : n \in 1..MaxSelected} :
        \A i, j \in 1..Len(l) : i # j => l[i] # l[j]}

\* What the template field of the window can hold: the default, a template
\* without {name}, and one with a placeholder that is no field.
WindowTemplates ==
    {DefaultTemplate, <<"{primary_genre}">>, <<"{bogus}", "/", "{name}">>}

\* The window is open, a destination folder is chosen, games are selected.
GuiInit ==
    /\ stage = "window"
    /\ content = <<>>
    /\ metadata = NoRecord
    /\ folder_template \in WindowTemplates
    /\ zip_stem = <<>>
    /\ game_name = <<>>
    /\ dest_path = NoPath
    /\ fs = MkdirParents(<<>>, Root).fs
    /\ zips = <<>>
    /\ options = <<>>
    /\ pending = <<>>
    /\ runs = 0
    /\ games_found = 0
    /\ games_moved = 0
    /\ errors = <<>>
    /\ last = NoLast
    /\ organized = <<>>
    /\ threads = <<>>
    /\ selection \in Selections
    /\ output_queue = <<>>
    /\ cancel_enabled = FALSE
    /\ chosen = <<>>
    /\ overlap = FALSE
    /\ RenameIdle
    /\ IoIdle

\* A thread between the first test of its probe and the end of its copy.
InWindow(th) == th.pc \in {"probe", "mkdir", "copytree"}

\* is_alive()
IsAlive(th) == th.pc \notin {"finished", "died"}

\* GamebaseGameOrganizerGUI._organize_games: a new thread is made of the
\* selected games and started, whether or not an earlier one is running.
OrganizeClicked ==
    /\ stage = "window"
    /\ Len(threads) < MaxThreads
    /\ selection # <<>>
    /\ threads' = Append(threads,
          [pc |-> "next", games |-> selection, total |-> Len(selection),
           template |-> folder_template, stop_flag |-> FALSE,
           name |-> <<>>, dest |-> <<>>, final |-> <<>>, version |-> 2,
           exc |-> "", terminal |-> 0])
    /\ cancel_enabled' = TRUE
    /\ UNCHANGED <<ioVars, renameVars, parserVars, pathVars, stage, orgVars, selection,
                   output_queue, chosen, overlap>>

\* GamebaseGameOrganizerGUI._cancel_operation: the stop flag of the latest
\* thread is set when the thread is alive.
CancelClicked ==
    /\ stage = "window"
    /\ cancel_enabled
    /\ threads' =
          IF threads # <<>> /\ IsAlive(threads[Len(threads)])
          THEN [threads EXCEPT ![Len(threads)].stop_flag = TRUE]
          ELSE threads
    /\ cancel_enabled' = FALSE
    /\ UNCHANGED <<ioVars, renameVars, parserVars, pathVars, stage, orgVars, selection,
                   output_queue, chosen, overlap>>

\* msg_type, data = self.output_queue.get_nowait() of a message that is
\* not a pair raises ValueError.
Unpacks(msg) == Len(msg) = 2

\* The messages one call of _check_queue takes off the queue: all of them,
\* or those up to the first that cannot be unpacked, that one included.
Taken(queue) ==
    IF \A k \in 1..Len(queue) : Unpacks(queue[k]) THEN Len(queue)
    ELSE Min({k \in 1..Len(queue) : ~Unpacks(queue[k])})

\* _check_queue having taken the first n messages: 'done' and 'cancelled'
\* disable the Cancel button; the call schedules itself again at its end,
\* which it reaches unless a message raised.
Polled(n) ==
    /\ output_queue' = SubSeq(output_queue, n + 1, Len(output_queue))
    /\ cancel_enabled' =
          IF \E k \in 1..n :
                /\ Unpacks(output_queue[k])
                /\ output_queue[k][1] \in {"done", "cancelled"}
          THEN FALSE ELSE cancel_enabled
    /\ polling' = \A k \in 1..n : Unpacks(output_queue[k])

\* GamebaseGameOrganizerGUI._check_queue, run by the event loop when it is
\* scheduled and a message waits.
CheckQueue ==
    /\ stage = "window"
    /\ polling
    /\ output_queue # <<>>
    /\ Polled(Taken(output_queue))
    /\ UNCHANGED <<nfo_file, encoding, temp_dirs, renameVars, parserVars,
                   pathVars, stage, orgVars, threads, selection, chosen,
                   overlap>>

\* ('progress', index, total) of the game a thread turns to.
Progress(th) == <<"progress", th.total - Len(th.games) + 1, th.total>>

\* The thread logs why it leaves a game out and goes on to the next.
LeftOut(th, text) ==
    [th |-> [th EXCEPT !.games = Tail(@)],
     msgs |-> <<Progress(th), <<"log", text>>>>]

\* run() once game_name and dest_path are known: an exception of
\* build_destination_path ends the thread, else the probe starts at
\* dest_path / game_name.
Prepared(th, name, built) ==
    IF built.kind # "path"
    THEN [th |-> [th EXCEPT !.pc = "died", !.exc = built.kind],
          msgs |-> <<Progress(th)>>]
    ELSE [th |-> [th EXCEPT !.pc = "probe", !.name = name,
                            !.dest = built.path,
                            !.final = JoinPath(built.path, name),
                            !.version = 2],
          msgs |-> <<Progress(th)>>]

\* What run() computes of an archive, which depends on the archive and the
\* template alone: the record parse_version_nfo returns, and from it
\* game_name and the result of build_destination_path.
ParsedArchive ==
    [zip \in DOMAIN ArchivePool |->
        IF ArchivePool[zip].nfo = IsADirectory THEN NoRecord
        ELSE ParseVersionNfo(ArchivePool[zip].nfo)]

WindowGameName ==
    [zip \in DOMAIN ArchivePool |->
        IF ParsedArchive[zip] = NoRecord THEN <<>>
        ELSE GameName(ParsedArchive[zip], ArchivePool[zip].stem)]

WindowDestination ==
    [template \in WindowTemplates |->
        [zip \in DOMAIN ArchivePool |->
            IF ParsedArchive[zip] = NoRecord THEN NoPath
            ELSE BuildDestinationPath(template, ParsedArchive[zip],
                                      ArchivePool[zip].stem, Root)]]

\* run() from the parsed record on.
ParsedGui(th, zip) ==
    IF ParsedArchive[zip] = NoRecord THEN LeftOut(th, "Parse failed")
    ELSE Prepared(th, WindowGameName[zip],
                  WindowDestination[th.template][zip])

\* One turn of the loop of GamebaseOrganizationThread.run up to the probe.
LoopHead(th) ==
    IF th.games = <<>>
    THEN [th |-> [th EXCEPT !.pc = "finished", !.terminal = @ + 1],
          msgs |-> <<<<"done", "None">>>>]
    ELSE IF th.stop_flag
    THEN [th |-> [th EXCEPT !.pc = "finished", !.terminal = @ + 1],
          msgs |-> <<<<"cancelled", "None">>>>]
    ELSE IF ~ArchivePool[Head(th.games)].readable
    THEN LeftOut(th, "Failed to extract")
    ELSE IF ~ArchivePool[Head(th.games)].has_nfo
    THEN LeftOut(th, "No VERSION.NFO")
    ELSE ParsedGui(th, Head(th.games))

Begun(t, r) ==
    /\ threads' = [threads EXCEPT ![t] = r.th]
    /\ output_queue' = output_queue \o r.msgs
    /\ overlap' = (overlap \/ (r.th.pc = "probe" /\
                     \E u \in DOMAIN threads : u # t /\ InWindow(threads[u])))
    /\ UNCHANGED <<ioVars, renameVars, parserVars, pathVars, stage, orgVars, selection,
                   cancel_enabled, chosen>>

\* A thread takes the next selected game, or ends.
ThreadBegin ==
    /\ stage = "window"
    /\ \E t \in DOMAIN threads :
          threads[t].pc = "next" /\ Begun(t, LoopHead(threads[t]))

\* The highest version a probe can come to: one for each game the threads
\* can organize, from 2 on.  The loop itself has no limit.
MaxVersion == MaxThreads * MaxSelected + 2

\* The test of the duplicate loop that finds every path taken.
FinalPathAlwaysTaken(f, th) == TRUE

\* The test of the duplicate loop that never finds the path taken.
FinalPathNeverTaken(f, th) == FALSE

\* while final_game_path.exists()
FinalPathTaken(f, th) == Exists(f, th.final)

\* One test of the duplicate loop: a taken path gives way to the next
\* versioned one, a free path is chosen.
ThreadProbe ==
    /\ stage = "window"
    /\ \E t \in DOMAIN threads :
          /\ threads[t].pc = "probe"
          /\ threads[t].version <= MaxVersion
          /\ IF FinalPathTaken(fs, threads[t])
             THEN /\ threads' = [threads EXCEPT
                        ![t].final = Versioned(threads[t].dest,
                                        threads[t].name, <<>>,
                                        threads[t].version),
                        ![t].version = @ + 1]
                  /\ chosen' = chosen
             ELSE /\ threads' = [threads EXCEPT ![t].pc = "mkdir"]
                  /\ chosen' = Append(chosen, threads[t].final)
    /\ UNCHANGED <<ioVars, renameVars, parserVars, pathVars, stage, orgVars, selection,
                   output_queue, cancel_enabled, overlap>>

Made(t, made) ==
    /\ fs' = made.fs
    /\ threads' = IF made.ok THEN [threads EXCEPT ![t].pc = "copytree"]
                  ELSE [threads EXCEPT ![t].pc = "died",
                                       ![t].exc = "FileExistsError"]

\* final_game_path.parent.mkdir(parents=True, exist_ok=True)
ThreadMkdir ==
    /\ stage = "window"
    /\ \E t \in DOMAIN threads :
          /\ threads[t].pc = "mkdir"
          /\ Made(t, MkdirParents(fs, Parent(threads[t].final)))
    /\ UNCHANGED <<ioVars, renameVars, parserVars, pathVars, stage, zips, options, pending, runs,
                   games_found, games_moved, errors, last, organized,
                   selection, output_queue, cancel_enabled, chosen, overlap>>

CopiedGui(t, copied) ==
    /\ fs' = copied.fs
    /\ IF copied.ok
       THEN /\ threads' = [threads EXCEPT ![t].pc = "next",
                                          ![t].games = Tail(@)]
            /\ organized' = Append(organized, threads[t].final)
            /\ output_queue' = Append(output_queue, <<"log", "ok">>)
       ELSE /\ threads' = [threads EXCEPT ![t].pc = "died",
                                          ![t].exc = "FileExistsError"]
            /\ organized' = organized
            /\ output_queue' = output_queue

\* shutil.copytree(game_folder, final_game_path), then the log message; a
\* path that exists by now raises FileExistsError, which run() does not
\* catch.
ThreadCopytree ==
    /\ stage = "window"
    /\ \E t \in DOMAIN threads :
          /\ threads[t].pc = "copytree"
          /\ CopiedGui(t, CopyTree(fs, threads[t].final, Len(organized) + 1))
    /\ UNCHANGED <<ioVars, renameVars, parserVars, pathVars, stage, zips, options, pending, runs,
                   games_found, games_moved, errors, last, selection,
                   cancel_enabled, chosen, overlap>>

GuiNext ==
    \/ OrganizeClicked
    \/ CancelClicked
    \/ CheckQueue
    \/ ThreadBegin
    \/ ThreadProbe
    \/ ThreadMkdir
    \/ ThreadCopytree

SpecGui == GuiInit /\ [][GuiNext]_vars

\* C6: two probes return the same path, or a copy finds its path taken,
\* only when two threads were between probe and copy at the same time;
\* threads that take their turns one after the other get different paths.
C6_SamePathOnlyWhenOverlapping ==
    (\/ \E i, j \in 1..Len(chosen) : i # j /\ chosen[i] = chosen[j]
     \/ \E t \in DOMAIN threads : threads[t].exc = "FileExistsError")
        => overlap

\* Two threads have both left the probe with the same path, which neither
\* has created yet.
C6_Witness ==
    \E t, u \in DOMAIN threads :
        /\ t # u
        /\ threads[t].pc \in {"mkdir", "copytree"}
        /\ threads[u].pc \in {"mkdir", "copytree"}
        /\ threads[t].final = threads[u].final
        /\ ~Exists(fs, threads[t].final)
        /\ \E i, j \in 1..Len(chosen) :
              i # j /\ chosen[i] = chosen[j] /\ chosen[i] = threads[t].final

-----------------------------------------------------------------------------
(* Scenario 6: rename_disk_files on one game folder *)

MaxFiles == 3

\* The characters of file names, in the order of their code points.
CodeOrder ==
    <<" ", "(", ")", "-", ".", "/">> \o DecimalDigits \o UpperCase
        \o <<"[", "]", "_">> \o LowerCase

\* ord(c)
Ord(c) == CHOOSE k \in 1..Len(CodeOrder) : CodeOrder[k] = c

\* a < b for two str
StrLess(a, b) ==
    \E k \in 0..Min({Len(a), Len(b)}) :
        /\ SubSeq(a, 1, k) = SubSeq(b, 1, k)
        /\ \/ k = Len(a) /\ k < Len(b)
           \/ k < Len(a) /\ k < Len(b) /\ Ord(a[k + 1]) < Ord(b[k + 1])

\* p < q for two Path: their parts are compared one by one.
PathLess(p, q) ==
    \E k \in 0..Min({Len(p), Len(q)}) :
        /\ SubSeq(p, 1, k) = SubSeq(q, 1, k)
        /\ \/ k = Len(p) /\ k < Len(q)
           \/ k < Len(p) /\ k < Len(q) /\ StrLess(p[k + 1], q[k + 1])

RECURSIVE SortedPaths(_)
\* list.sort() of a list of distinct paths
SortedPaths(S) ==
    IF S = {} THEN <<>>
    ELSE LET first == CHOOSE p \in S : \A q \in S \ {p} : PathLess(p, q)
         IN  <<first>> \o SortedPaths(S \ {first})

\* Path.suffix of a file name: from its last dot on, unless that dot is the
\* first or the last character.
Suffix(name) ==
    LET dots == {k \in 1..Len(name) : name[k] = "."}
    IN  IF dots # {} /\ 1 < Max(dots) /\ Max(dots) < Len(name)
        THEN SubSeq(name, Max(dots), Len(name))
        ELSE <<>>

disk_extensions ==
    {<<".", "d", "6", "4">>, <<".", "d", "7", "1">>, <<".", "d", "8", "1">>,
     <<".", "g", "6", "4">>, <<".", "x", "6", "4">>, <<".", "t", "6", "4">>,
     <<".", "t", "a", "p">>, <<".", "p", "r", "g">>, <<".", "p", "0", "0">>,
     <<".", "l", "n", "x">>}

\* The name of a path and the directory it is in, for paths beneath the
\* game folder.
NameOf(path) == path[Len(path)]
DirOf(path) == SubSeq(path, 1, Len(path) - 1)

\* The listing without the is_file test: directories with a recognized
\* suffix are listed too.
DiskFilesWithDirs(fd) ==
    SortedPaths({p \in DOMAIN fd :
                    Lower(Suffix(NameOf(p))) \in disk_extensions})

\* The files rename_disk_files finds: folder.rglob('*') narrowed to files
\* with a recognized suffix, sorted.
DiskFiles(fd) ==
    SortedPaths({p \in DOMAIN fd :
                    /\ fd[p].kind = "file"
                    /\ Lower(Suffix(NameOf(p))) \in disk_extensions})

\* file.parent / f"{game_name}_d{index}{ext}"
NewPath(file, name, index) ==
    DirOf(file)
        \o <<name \o <<"_", "d">> \o Decimal(index)
                \o Lower(Suffix(NameOf(file)))>>

\* What a game folder can hold: image files, one with an upper-case
\* suffix, files already named like a renamed disk of game "b", a text
\* file, a directory named like an image, and an image file in a directory.
FilePool ==
    {[path |-> <<<<"a", ".", "d", "6", "4">>>>, kind |-> "file"],
     [path |-> <<<<"c", ".", "d", "6", "4">>>>, kind |-> "file"],
     [path |-> <<<<"B", ".", "D", "6", "4">>>>, kind |-> "file"],
     [path |-> <<<<"b", "_", "d", "1", ".", "d", "6", "4">>>>,
      kind |-> "file"],
     [path |-> <<<<"b", "_", "d", "2", ".", "d", "6", "4">>>>,
      kind |-> "file"],
     [path |-> <<<<"r", ".", "t", "x", "t">>>>, kind |-> "file"],
     [path |-> <<<<"x", ".", "d", "6", "4">>>>, kind |-> "dir"],
     [path |-> <<<<"s">>, <<"a", ".", "d", "6", "4">>>>, kind |-> "file"]}

\* The folder with the entries es: every file holds its own content, named
\* here by the path it starts at; the directories of the entries exist.
FolderOf(es) ==
    LET paths == {e.path : e \in es}
        dirs == {DirOf(e.path) : e \in es} \ {<<>>}
    IN  [p \in paths \cup dirs |->
            IF \E e \in es : e.path = p /\ e.kind = "file"
            THEN [kind |-> "file", id |-> p]
            ELSE [kind |-> "dir", id |-> p]]

GameNames == {<<"b">>, <<"T">>}

\* os.rename onto a taken name replaces a file on POSIX and raises
\* FileExistsError on Windows; onto a directory it raises on both.
Platforms == {"posix", "windows"}

RECURSIVE RenameFrom(_, _, _, _, _)
\* The loop of rename_disk_files from the index-th file of the list on.
RenameFrom(fd, files, index, name, pf) ==
    IF index > Len(files) THEN [ok |-> TRUE, folder |-> fd]
    ELSE IF NewPath(files[index], name, index) = files[index]
    THEN RenameFrom(fd, files, index + 1, name, pf)
    ELSE IF /\ NewPath(files[index], name, index) \in DOMAIN fd
            /\ (pf = "windows"
                \/ fd[NewPath(files[index], name, index)].kind = "dir")
    THEN [ok |-> FALSE, folder |-> fd]
    ELSE RenameFrom(
            [p \in (DOMAIN fd \ {files[index]})
                    \cup {NewPath(files[index], name, index)} |->
                IF p = NewPath(files[index], name, index)
                THEN fd[files[index]] ELSE fd[p]],
            files, index + 1, name, pf)

RenameInit ==
    /\ stage = "folder"
    /\ content = <<>>
    /\ metadata = NoRecord
    /\ folder_template = <<>>
    /\ zip_stem = <<>>
    /\ game_name \in GameNames
    /\ dest_path = NoPath
    /\ OrgIdle
    /\ GuiIdle
    /\ IoIdle
    /\ \E es \in SUBSET FilePool :
          Cardinality(es) <= MaxFiles /\ folder = FolderOf(es)
    /\ before = folder
    /\ disk_files = <<>>
    /\ platform \in Platforms

Renamed(result) ==
    /\ folder' = result.folder
    /\ stage' = IF result.ok THEN "renamed" ELSE "rename_raised"

\* rename_disk_files(folder, game_name), from the listing to the last
\* rename or to the exception of a rename.
RenameDiskFiles ==
    /\ stage = "folder"
    /\ disk_files' = DiskFiles(folder)
    /\ Renamed(RenameFrom(folder, DiskFiles(folder), 1, game_name, platform))
    /\ UNCHANGED <<ioVars, parserVars, pathVars, orgVars, guiVars, before, platform>>

RenameNext == RenameDiskFiles

SpecRename == RenameInit /\ [][RenameNext]_vars

\* ---------------------------------------------------------------------------
\* Properties of rename_disk_files.
\* ---------------------------------------------------------------------------

\* The file that was at path p when rename_disk_files was called is at path
\* q now.
NowAt(p, q) ==
    /\ q \in DOMAIN folder
    /\ folder[q].kind = "file"
    /\ folder[q].id = p

\* C8: once rename_disk_files has ended, the i-th file (i from 1) of the
\* recognized image files in ascending path order is the file at
\* '<name>_d<i><ext>' in the directory it was in, for every i; a file that
\* was at that name already is still there.
C8_IthFileAtIndexedName ==
    stage \in {"renamed", "rename_raised"} =>
        \A i \in 1..Len(disk_files) :
            NowAt(disk_files[i], NewPath(disk_files[i], game_name, i))

-----------------------------------------------------------------------------
(* Scenario 7: a label inside a line and at the start of another line *)

MaxLabelLines == 4

\* The lines of an info file in which the label stands at the start of a
\* line, at the end of a longer word, and inside the value of the name.
LabelLinePool(label) ==
    {<<"Name:", " ", "Z">>, <<"Genre:", " ", "A">>,
     <<label, " ", "a">>,
     <<"x", label, " ", "b">>,
     <<"Name:", " ", "Z", " ", label, " ", "b">>}

LabelsInit ==
    /\ stage = "input"
    /\ \E f \in DOMAIN LabelOf, n \in 0..MaxLabelLines :
          \E ls \in [1..n -> LabelLinePool(LabelOf[f])] :
              content = JoinLines(ls)
    /\ metadata = NoRecord
    /\ PathIdle
    /\ OrgIdle
    /\ GuiIdle
    /\ RenameIdle
    /\ IoIdle

SpecLabels == LabelsInit /\ [][LinesNext]_vars

\* The label stands in some line of the text after other text of the line.
HasInnerLabel(text, label) ==
    \E k \in 1..Len(LinesOf(text)) :
        /\ ~StartsWith(LinesOf(text)[k], label)
        /\ \E i \in 1..Len(LinesOf(text)[k]) : LinesOf(text)[k][i] = label

\* Some line of the text starts with the label.
HasLabelLine(text, label) ==
    \E k \in 1..Len(LinesOf(text)) : StartsWith(LinesOf(text)[k], label)

\* C11: when a single-value label stands inside some line (in another
\* field's value, or as the tail of a longer word) and at the start of
\* another line, the record's value is the one of the line that starts
\* with the label, whichever of the two comes first.
C11_LineStartLabelWins ==
    (stage = "parsed" /\ metadata # NoRecord) =>
        \A f \in DOMAIN LabelOf :
            (HasInnerLabel(content, LabelOf[f])
                    /\ HasLabelLine(content, LabelOf[f]))
                => <<metadata[f]>> = FirstValue(LinesOf(content), LabelOf[f])

-----------------------------------------------------------------------------
(* Scenario 8: the genre and the lines that follow it *)

MaxGenreLines == 5

\* The lines of an info file around a genre: indented lines, a blank line
\* and lines that are not indented.
GenreLinePool ==
    {<<"Name:", " ", "Z">>, <<"Genre:", " ", "A">>,
     <<"\t", "-", " ", " ", "P">>, <<" ", "B">>,
     <<>>, <<"Language:", " ", "b">>}

GenreLinesInit ==
    /\ stage = "input"
    /\ \E n \in 0..MaxGenreLines :
          \E ls \in [1..n -> GenreLinePool] : content = JoinLines(ls)
    /\ metadata = NoRecord
    /\ PathIdle
    /\ OrgIdle
    /\ GuiIdle
    /\ RenameIdle
    /\ IoIdle

SpecGenreLines == GenreLinesInit /\ [][LinesNext]_vars

\* A line that begins with a space or a tab and holds more than that.
IsIndented(line) ==
    /\ line # <<>>
    /\ Head(line) \in {" ", "\t"}
    /\ StripChars(line, {" ", "\t"}) # <<>>

\* The indented lines at the head of the lines ls, each after a newline.
RECURSIVE IndentedRun(_)
IndentedRun(ls) ==
    IF ls = <<>> \/ ~IsIndented(Head(ls)) THEN <<>>
    ELSE <<"\n">> \o Head(ls) \o IndentedRun(Tail(ls))

\* The genre text of the lines ls: what follows Genre: on the first line
\* that starts with it, joined with the indented lines directly after it,
\* whitespace collapsed and trimmed.
RECURSIVE GenreOfLines(_)
GenreOfLines(ls) ==
    IF ls = <<>> THEN NoMatch
    ELSE IF StartsWith(Head(ls), "Genre:")
    THEN <<Strip(CollapseSpace(Explode(
            Tail(StripChars(Head(ls), {" ", "\t"}))
                \o IndentedRun(Tail(ls)))))>>
    ELSE GenreOfLines(Tail(ls))

\* C12: the genre is the text after Genre: on its line joined with only the
\* indented lines that directly follow it - a line that is not indented,
\* also one that comes after a blank line, is never part of the genre -
\* with every run of whitespace collapsed to one space and the ends
\* trimmed, before it is split.
C12_GenreJoinsOnlyIndentedLines ==
    (Parsed /\ metadata # NoRecord) =>
        /\ Matched(GenreOfLines(LinesOf(content)))
        /\ metadata.primary_genre =
                SplitGenre(GenreOfLines(LinesOf(content))[1]).primary
        /\ metadata.secondary_genre =
                SplitGenre(GenreOfLines(LinesOf(content))[1]).secondary

-----------------------------------------------------------------------------
(* Scenario 9: the genre split on every short genre text *)

MaxGenreLen == 9

GenreAlphabet == {"A", " ", "-"}

\* An info file with a name and, on its last line, a genre.
GenreTextInit ==
    /\ stage = "input"
    /\ \E n \in 0..MaxGenreLen :
          \E g \in [1..n -> GenreAlphabet] :
              content = <<"Name:", " ", "Z", "\n", "Genre:", " ">> \o g
    /\ metadata = NoRecord
    /\ PathIdle
    /\ OrgIdle
    /\ GuiIdle
    /\ RenameIdle
    /\ IoIdle

SpecGenreText == GenreTextInit /\ [][LinesNext]_vars

\* The collapsed and trimmed genre text of the info file.
GenreTextOf(text) == GenreOfLines(LinesOf(text))[1]

\* s holds the three characters ' - ' from index k on.
SeparatorAt(s, k) ==
    k + 2 <= Len(s) /\ SubSeq(s, k, k + 2) = <<" ", "-", " ">>

\* C13: when the collapsed genre text holds ' - ', primary_genre is the
\* trimmed text before its first occurrence and secondary_genre the trimmed
\* text after it, a later ' - ' kept as it is; without ' - ' primary_genre
\* is the whole text and secondary_genre is 'Other'.
C13_GenreSplitAtFirstSeparator ==
    (Parsed /\ metadata # NoRecord) =>
        /\ \A k \in 1..Len(GenreTextOf(content)) :
              (/\ SeparatorAt(GenreTextOf(content), k)
               /\ \A j \in 1..(k - 1) : ~SeparatorAt(GenreTextOf(content), j))
              => /\ metadata.primary_genre =
                        Strip(SubSeq(GenreTextOf(content), 1, k - 1))
                 /\ metadata.secondary_genre =
                        Strip(SubSeq(GenreTextOf(content), k + 3,
                                     Len(GenreTextOf(content))))
        /\ (\A k \in 1..Len(GenreTextOf(content)) :
                ~SeparatorAt(GenreTextOf(content), k))
              => /\ metadata.primary_genre = GenreTextOf(content)
                 /\ metadata.secondary_genre = Other

\* A genre with two separators has been split: the second one is in
\* secondary_genre.
C13_Witness ==
    /\ Parsed
    /\ metadata # NoRecord
    /\ metadata.primary_genre = <<"A">>
    /\ metadata.secondary_genre = <<"A", " ", "-", " ", "A">>

-----------------------------------------------------------------------------
(* Scenario 10: the published split on every short value *)

MaxPublishedLen == 7

PublishedAlphabet == {"1", "?", "a", " "}

\* An info file with a name, a genre and, on its last line, Published:.
PublishedInit ==
    /\ stage = "input"
    /\ \E n \in 0..MaxPublishedLen :
          \E v \in [1..n -> PublishedAlphabet] :
              content = <<"Name:", " ", "Z", "\n", "Genre:", " ", "A", "\n",
                          "Published:", " ">> \o v
    /\ metadata = NoRecord
    /\ PathIdle
    /\ OrgIdle
    /\ GuiIdle
    /\ RenameIdle
    /\ IoIdle

SpecPublished == PublishedInit /\ [][LinesNext]_vars

\* The raw value of Published: in the info file, trimmed.
RawPublished(text) == FirstValue(LinesOf(text), "Published:")[1]

\* The part of a value before its first whitespace run.
RECURSIVE FirstPart(_)
FirstPart(v) ==
    IF v = <<>> \/ IsSpace(Head(v)) THEN <<>>
    ELSE <<Head(v)>> \o FirstPart(Tail(v))

\* The part of a value after its first whitespace run.
SecondPart(v) == LStrip(SubSeq(v, Len(FirstPart(v)) + 1, Len(v)))

\* Exactly 4 characters, each a digit or '?'.
YearShaped(part) ==
    /\ Len(part) = 4
    /\ \A k \in 1..Len(part) :
          part[k] \in {"0", "1", "2", "3", "4", "5", "6", "7", "8", "9", "?"}

\* C14: the raw value of Published: is cut at its first whitespace run; a
\* first part of exactly 4 characters, each a digit or '?', becomes
\* published_year and the second part, when there is one, publisher
\* (otherwise publisher stays 'Unknown'); with any other first part the
\* whole raw value becomes publisher and published_year stays 'Unknown'.
C14_PublishedSplitGatedByYearShape ==
    (stage = "parsed" /\ metadata # NoRecord
            /\ RawPublished(content) # <<>>) =>
        IF YearShaped(FirstPart(RawPublished(content)))
        THEN /\ metadata.published_year = FirstPart(RawPublished(content))
             /\ metadata.publisher =
                    IF SecondPart(RawPublished(content)) = <<>> THEN Unknown
                    ELSE SecondPart(RawPublished(content))
        ELSE /\ metadata.published_year = Unknown
             /\ metadata.publisher = RawPublished(content)

\* A value whose first part is a year with a '?' and whose second part is a
\* publisher has been split.
C14_Witness ==
    /\ stage = "parsed"
    /\ metadata # NoRecord
    /\ RawPublished(content) = <<"1", "1", "1", "?", " ", " ", "a">>
    /\ metadata.published_year = <<"1", "1", "1", "?">>
    /\ metadata.publisher = <<"a">>

-----------------------------------------------------------------------------
(* The record of an info file that lacks optional labels *)

\* The label stands nowhere in the text.
LabelAbsent(text, label) == \A i \in 1..Len(text) : text[i] # label

\* The keys of the record whose values are never None.
DefaultedFields ==
    {"name", "primary_genre", "secondary_genre", "language",
     "published_year", "publisher", "players", "control", "pal_ntsc"}

\* C15: for an info text with a Name line in its section and a Genre,
\* GamebaseOrganizer.parse_version_nfo returns a record of all 15 keys; a
\* label that is absent gives its default - '(No Text)' for language,
\* 'Unknown' for published_year, publisher, players, control and pal_ntsc,
\* None for unique_id, developer, coding, graphics, music and comment -
\* and never a failure; the nine defaulted fields are never None.
C15_RecordCompleteWithDefaults ==
    (/\ stage = "parsed"
     /\ HasNameLine(SectionOf(content))
     /\ HasGenreField(content)) =>
        /\ metadata # NoRecord
        /\ DOMAIN metadata = ValidFields
        /\ \A f \in DOMAIN LabelOf :
              LabelAbsent(content, LabelOf[f]) => metadata[f] = DefaultOf(f)
        /\ LabelAbsent(content, "Published:")
              => metadata.published_year = Unknown
        /\ \A f \in DefaultedFields : metadata[f] # None

\* An info file with a name and a genre and none of the optional labels
\* has been parsed to a record of defaults.
C15_Witness ==
    /\ stage = "parsed"
    /\ \A f \in DOMAIN LabelOf : LabelAbsent(content, LabelOf[f])
    /\ metadata # NoRecord
    /\ metadata.language = NoText
    /\ metadata.publisher = Unknown
    /\ metadata.comment = None

-----------------------------------------------------------------------------
(* Scenario 11: sanitize_folder_name on every short name, and on its own
   result *)

MaxNameLen == 5

NameAlphabet == {"a", "!", "/", "\\", "[", "]", "?", ".", " "}

SanitizeInit ==
    /\ stage = "input"
    /\ content = <<>>
    /\ metadata = NoRecord
    /\ folder_template = <<>>
    /\ zip_stem \in UNION {[1..n -> NameAlphabet] : n \in 0..MaxNameLen}
    /\ game_name = <<>>
    /\ dest_path = NoPath
    /\ OrgIdle
    /\ GuiIdle
    /\ RenameIdle
    /\ IoIdle

\* sanitize_folder_name(name) returns; zip_stem holds the name passed.
Sanitize ==
    /\ stage = "input"
    /\ game_name' = SanitizeFolderName(zip_stem)
    /\ stage' = "sanitized"
    /\ UNCHANGED <<ioVars, parserVars, folder_template, zip_stem, dest_path, orgVars,
                   guiVars, renameVars>>

\* sanitize_folder_name is called on the name it returned.
SanitizeAgain ==
    /\ stage = "sanitized"
    /\ zip_stem' = game_name
    /\ game_name' = SanitizeFolderName(game_name)
    /\ stage' = "sanitized_again"
    /\ UNCHANGED <<ioVars, parserVars, folder_template, dest_path, orgVars, guiVars,
                   renameVars>>

SanitizeNext == Sanitize \/ SanitizeAgain

SpecSanitize == SanitizeInit /\ [][SanitizeNext]_vars

\* C16: sanitize_folder_name is idempotent: called on a name it returned,
\* it returns that name.
C16_SanitizeIdempotent ==
    stage = "sanitized_again" => game_name = zip_stem

\* A name that the first call changed has been sanitized a second time.
C16_Witness ==
    /\ stage = "sanitized_again"
    /\ zip_stem = <<"a", "-", "a">>
    /\ game_name = <<"a", "-", "a">>

\* The name with '-' for each separator and without the other forbidden
\* characters, every other character kept in its place.
RECURSIVE Cleaned(_)
Cleaned(name) ==
    IF name = <<>> THEN <<>>
    ELSE IF Head(name) \in {"/", "\\"} THEN <<"-">> \o Cleaned(Tail(name))
    ELSE IF Head(name) \in {"[", "]", "<", ">", ":", "\"", "|", "?", "*"}
    THEN Cleaned(Tail(name))
    ELSE <<Head(name)>> \o Cleaned(Tail(name))

\* C17: the name sanitize_folder_name returns holds none of
\* / \ [ ] < > : " | ? *, neither begins nor ends with a space or a dot,
\* and is the input with '-' for each slash and backslash and its other
\* characters kept in order, less the forbidden ones and the spaces and
\* dots at its two ends.
C17_SanitizedNameShape ==
    stage = "sanitized" =>
        /\ \A i \in 1..Len(game_name) :
              game_name[i] \notin
                {"/", "\\", "[", "]", "<", ">", ":", "\"", "|", "?", "*"}
        /\ game_name # <<>> =>
              /\ Head(game_name) \notin {" ", "."}
              /\ game_name[Len(game_name)] \notin {" ", "."}
        /\ \E i \in 1..(Len(Cleaned(zip_stem)) + 1) :
              \E j \in (i - 1)..Len(Cleaned(zip_stem)) :
                  /\ game_name = SubSeq(Cleaned(zip_stem), i, j)
                  /\ \A k \in 1..(i - 1) : Cleaned(zip_stem)[k] \in {" ", "."}
                  /\ \A k \in (j + 1)..Len(Cleaned(zip_stem)) :
                        Cleaned(zip_stem)[k] \in {" ", "."}

\* A name with a bracket, a separator, a '!' and a dot at its end has been
\* sanitized.
C17_Witness ==
    /\ stage = "sanitized"
    /\ zip_stem = <<"!", "[", "/", "a", ".">>
    /\ game_name = <<"!", "-", "a">>

-----------------------------------------------------------------------------
(* Where the front ends put the game folder *)

\* The last replacement field of a template is {name}.
LastPlaceholderIsName(template) ==
    /\ \E k \in 1..Len(template) : IsField(template[k])
    /\ template[Max({k \in 1..Len(template) : IsField(template[k])})]
            = "{name}"

\* C18: in extract mode the path the probe starts from, and every path it
\* goes on to, is the template-expanded path itself or a sibling of it when
\* the template's last placeholder is {name} - no folder of the game's name
\* is put beneath it, so there is no Name/Name nesting - and is one segment
\* beneath the template-expanded path otherwise; this holds for the paths
\* of the organizer threads of the window as for the command line.
C18_NoNameFolderBeneathNameTemplate ==
    \A t \in DOMAIN threads :
        (InWindow(threads[t]) /\ threads[t].name # <<>>) =>
            IF LastPlaceholderIsName(threads[t].template)
            THEN Parent(threads[t].final) = Parent(threads[t].dest)
            ELSE Parent(threads[t].final) = threads[t].dest

-----------------------------------------------------------------------------
(* Scenario 12: the organization threads under a fair scheduler *)

\* The steps of the threads, without the window's Cancel button and queue.
ProbeNext ==
    \/ OrganizeClicked
    \/ ThreadBegin
    \/ ThreadProbe
    \/ ThreadMkdir
    \/ ThreadCopytree

\* A step of the duplicate loop of thread t.
ProbeStepOf(t) ==
    /\ t \in DOMAIN threads
    /\ ThreadProbe
    /\ threads'[t] # threads[t]

\* Every started thread that can take a step of its loop takes one in the
\* end: the interpreter switches between runnable threads.
SpecProbe ==
    /\ GuiInit
    /\ [][ProbeNext]_vars
    /\ \A t \in 1..MaxThreads : WF_vars(ProbeStepOf(t))

-----------------------------------------------------------------------------
(* What rename_disk_files leaves alone *)

ImageExtensions ==
    {<<".", "d", "6", "4">>, <<".", "d", "7", "1">>, <<".", "d", "8", "1">>,
     <<".", "g", "6", "4">>, <<".", "x", "6", "4">>, <<".", "t", "6", "4">>,
     <<".", "t", "a", "p">>, <<".", "p", "r", "g">>, <<".", "p", "0", "0">>,
     <<".", "l", "n", "x">>}

\* The extension of the path's name, compared without case, is one of the
\* image extensions.
HasImageExtension(p) == Lower(Suffix(NameOf(p))) \in ImageExtensions

\* C20: rename_disk_files leaves every directory (also one named like an
\* image, 'x.d64') and every file whose extension is not an image extension
\* where and as it was, and every file it renames stays in the directory
\* it was in.
C20_OnlyImageFilesRenamedInPlace ==
    stage \in {"renamed", "rename_raised"} =>
        /\ \A p \in DOMAIN before :
              (before[p].kind = "dir" \/ ~HasImageExtension(p))
                  => p \in DOMAIN folder /\ folder[p] = before[p]
        /\ \A q \in DOMAIN folder :
              folder[q].kind = "file" => DirOf(q) = DirOf(folder[q].id)

\* A folder with a directory named x.d64, a text file and an image file in
\* a subdirectory has been renamed: the image file has its new name.
C20_Witness ==
    /\ stage = "renamed"
    /\ <<<<"x", ".", "d", "6", "4">>>> \in DOMAIN before
    /\ <<<<"r", ".", "t", "x", "t">>>> \in DOMAIN before
    /\ \E q \in DOMAIN folder :
          /\ folder[q].kind = "file"
          /\ folder[q].id # q
          /\ Len(q) = 2

-----------------------------------------------------------------------------
(* Scenario 13: parse_version_nfo opens and decodes the file *)

MaxBytes == 5

\* The bytes of a file are written as the characters they are in ASCII;
\* a keyword stands for the bytes of its characters, "BOM" for the bytes
\* EF BB BF, "xC3", "xA9" and "x81" for the one byte of that value.  A
\* decoded character outside ASCII is written by its code point.
ByteAlphabet ==
    {"Name:", "Genre:", "Z", "\n", "\r", "BOM", "xC3", "xA9", "x81"}

\* UTF-8 continuation bytes among the bytes above.
IsContinuation(b) == b \in {"xA9", "x81"}

\* The character that C3 and a continuation byte encode.
TwoByteChar(b) == IF b = "xA9" THEN "U+00E9" ELSE "U+00C1"

RECURSIVE Utf8(_, _)
\* bytes.decode('utf-8', errors): C3 starts a two-byte sequence, EF BB BF is
\* U+FEFF, a byte that fits no sequence raises in strict mode and becomes
\* U+FFFD otherwise.
Utf8(bytes, mode) ==
    IF bytes = <<>> THEN [ok |-> TRUE, text |-> <<>>]
    ELSE LET b == Head(bytes)
             two == b = "xC3" /\ Len(bytes) >= 2 /\ IsContinuation(bytes[2])
             invalid == ~two /\ b \in {"xC3", "xA9", "x81"}
             rest == Utf8(IF two THEN Tail(Tail(bytes)) ELSE Tail(bytes),
                          mode)
             char == IF two THEN <<TwoByteChar(bytes[2])>>
                     ELSE IF invalid THEN <<"U+FFFD">>
                     ELSE IF b = "BOM" THEN <<"U+FEFF">>
                     ELSE <<b>>
         IN  IF invalid /\ mode = "strict"
             THEN [ok |-> FALSE, text |-> <<>>]
             ELSE [ok |-> rest.ok, text |-> char \o rest.text]

\* bytes.decode('utf-8-sig', errors): a byte order mark at the start is
\* dropped.
Utf8Sig(bytes, mode) ==
    IF bytes # <<>> /\ Head(bytes) = "BOM" THEN Utf8(Tail(bytes), mode)
    ELSE Utf8(bytes, mode)

\* The characters of a byte in cp1252 (undefined = "U+FFFD": 81 has none)
\* and in latin-1 (undefined = "U+0081").
SingleByteChars(b, undefined) ==
    CASE b = "BOM" -> <<"U+00EF", "U+00BB", "U+00BF">>
      [] b = "xC3" -> <<"U+00C3">>
      [] b = "xA9" -> <<"U+00A9">>
      [] b = "x81" -> <<undefined>>
      [] OTHER -> <<b>>

RECURSIVE SingleByte(_, _)
SingleByte(bytes, undefined) ==
    IF bytes = <<>> THEN <<>>
    ELSE SingleByteChars(Head(bytes), undefined)
            \o SingleByte(Tail(bytes), undefined)

\* bytes.decode('cp1252', errors): byte 81 is not assigned.
Cp1252(bytes, mode) ==
    IF mode = "strict" /\ \E k \in 1..Len(bytes) : bytes[k] = "x81"
    THEN [ok |-> FALSE, text |-> <<>>]
    ELSE [ok |-> TRUE, text |-> SingleByte(bytes, "U+FFFD")]

\* bytes.decode('latin-1', errors): every byte is a character.
Latin1(bytes, mode) == [ok |-> TRUE, text |-> SingleByte(bytes, "U+0081")]

RECURSIVE UniversalNewlines(_)
\* Text mode with newline=None: "\r\n" and "\r" are read as "\n".
UniversalNewlines(text) ==
    IF text = <<>> THEN <<>>
    ELSE IF Head(text) = "\r"
    THEN <<"\n">> \o UniversalNewlines(
            IF Len(text) >= 2 /\ text[2] = "\n" THEN Tail(Tail(text))
            ELSE Tail(text))
    ELSE <<Head(text)>> \o UniversalNewlines(Tail(text))

\* open(nfo_path, 'r', encoding=encoding, errors=errors).read()
Read(bytes, enc, mode) ==
    LET decoded == CASE enc = "utf-8-sig" -> Utf8Sig(bytes, mode)
                     [] enc = "cp1252" -> Cp1252(bytes, mode)
                     [] enc = "latin-1" -> Latin1(bytes, mode)
    IN  [ok |-> decoded.ok, text |-> UniversalNewlines(decoded.text)]

\* The encodings in another order.
EncodingsCp1252First == <<"cp1252", "utf-8-sig", "latin-1">>

\* for encoding in ['utf-8-sig', 'cp1252', 'latin-1']
Encodings == <<"utf-8-sig", "cp1252", "latin-1">>

\* One pass over the encodings: the first that reads the file without
\* raising gives the content and ends the pass; content stays None when
\* every one raises.
Pass(bytes, mode) ==
    LET readable == {k \in 1..Len(Encodings) :
                        Read(bytes, Encodings[k], mode).ok}
    IN  IF readable = {}
        THEN [encoding |-> "", errors |-> mode, content |-> <<>>]
        ELSE [encoding |-> Encodings[Min(readable)], errors |-> mode,
              content |-> Read(bytes, Encodings[Min(readable)], mode).text]

\* The two passes of parse_version_nfo: the second runs when the first left
\* content None or empty.
Decode(bytes) ==
    IF Pass(bytes, "strict").content # <<>> THEN Pass(bytes, "strict")
    ELSE Pass(bytes, "replace")

\* The files parse_version_nfo is called on.
NfoFiles ==
    UNION {[1..n -> ByteAlphabet] : n \in 0..MaxBytes} \cup {IsADirectory}

DecodeInit ==
    /\ stage = "file"
    /\ content = <<>>
    /\ metadata = NoRecord
    /\ PathIdle
    /\ OrgIdle
    /\ GuiIdle
    /\ RenameIdle
    /\ nfo_file \in NfoFiles
    /\ encoding = <<>>
    /\ temp_dirs = {}
    /\ polling = TRUE

\* parse_version_nfo from `if not content` on.
ParsedContent(decoded) ==
    /\ content' = decoded.content
    /\ encoding' = <<decoded.encoding, decoded.errors>>
    /\ metadata' = IF decoded.content = <<>> THEN NoRecord
                   ELSE ParseVersionNfo(decoded.content)
    /\ errors' = errors

\* GamebaseOrganizer.parse_version_nfo(nfo_path) returns.  open() of a
\* directory raises an OSError, which the outer handler records.
ParseVersionNfoFile ==
    /\ stage = "file"
    /\ stage' = "parsed"
    /\ IF nfo_file = IsADirectory
       THEN /\ errors' = Append(errors, FailedToParse)
            /\ metadata' = NoRecord
            /\ UNCHANGED <<content, encoding>>
       ELSE ParsedContent(Decode(nfo_file))
    /\ UNCHANGED <<pathVars, fs, zips, options, pending, runs, games_found,
                   games_moved, last, organized, guiVars, renameVars,
                   nfo_file, temp_dirs, polling>>

SpecDecode == DecodeInit /\ [][ParseVersionNfoFile]_vars

\* The first of utf-8-sig, cp1252 and latin-1 that decodes the file in
\* strict mode.
FirstStrict ==
    IF Read(nfo_file, "utf-8-sig", "strict").ok THEN "utf-8-sig"
    ELSE IF Read(nfo_file, "cp1252", "strict").ok THEN "cp1252"
    ELSE "latin-1"

\* C21: the content of a file is what the first of utf-8-sig, cp1252 and
\* latin-1 that decodes it in strict mode gives; the replacement pass has
\* run only when that attempt, the last one made, gave no content, and when
\* no attempt gave content no record is returned.
C21_FirstStrictEncodingWins ==
    (stage = "parsed" /\ nfo_file # IsADirectory) =>
        LET strict == Read(nfo_file, FirstStrict, "strict").text
        IN  /\ strict # <<>> =>
                /\ encoding = <<FirstStrict, "strict">>
                /\ content = strict
                /\ metadata = ParseVersionNfo(strict)
            /\ encoding[2] = "replace" <=> strict = <<>>
            /\ content = <<>> => metadata = NoRecord

\* A file that is not UTF-8 has been read as cp1252.
C21_Witness ==
    /\ stage = "parsed"
    /\ nfo_file # IsADirectory
    /\ ~Read(nfo_file, "utf-8-sig", "strict").ok
    /\ encoding = <<"cp1252", "strict">>
    /\ metadata # NoRecord
    /\ \E k \in 1..Len(content) : content[k] = "U+00A9"

-----------------------------------------------------------------------------
(* Scenario 14: build_destination_path on records that lack fields *)

MaxMissing == 2

\* A value that makes `metadata.get(key) or default` take the default.
MissingValues == {None, <<>>}

\* The record without key f.
Without(md, f) == [k \in DOMAIN md \ {f} |-> md[k]]

\* The plain record with a year, with up to MaxMissing fields None or empty,
\* or with one key left out.
SparseRecords ==
    LET Base(y) == [BaseRecord EXCEPT !.published_year = y]
    IN  UNION {{Base(y)} \cup {Without(Base(y), f) : f \in ValidFields}
               \cup UNION {{[Base(y) EXCEPT ![F[k]] = v] :
                               v \in MissingValues, k \in 1..MaxMissing} :
                              F \in [1..MaxMissing -> ValidFields]}
               \cup {[Base(y) EXCEPT ![f] = v, ![g] = w] :
                        f \in ValidFields, g \in {"name", "secondary_genre"},
                        v \in MissingValues, w \in MissingValues} :
                  y \in YearValues}

\* One template for each field, ahead of the name, and the default one.
FieldTemplates ==
    {DefaultTemplate}
        \cup {<<"{" \o f \o "}", "/", "{name}">> : f \in ValidFields}

\* Stems of archives, one with a character the sanitizer removes.
SparseStems == {<<"g">>, <<"[", "g">>}

SparseInit ==
    /\ stage = "input"
    /\ content = <<>>
    /\ metadata \in SparseRecords
    /\ folder_template \in FieldTemplates
    /\ zip_stem \in SparseStems
    /\ game_name = <<>>
    /\ dest_path = NoPath
    /\ OrgIdle
    /\ GuiIdle
    /\ RenameIdle
    /\ IoIdle

SpecSparse == SparseInit /\ [][PathNext]_vars

\* The field is missing from the record: no key, None, or empty.
Missing(md, f) == f \notin DOMAIN md \/ md[f] = None \/ md[f] = <<>>

\* The default of a field.
DefaultText(f, stem) ==
    IF f = "name" THEN stem
    ELSE IF f = "secondary_genre" THEN Other
    ELSE Unknown

\* What a placeholder stands for according to the defaults: the default of
\* a missing field, sanitized where the field's values are, and the year
\* with 'x' for '?'.
Expansion(md, stem, f) ==
    IF Missing(md, f)
    THEN IF f \in {"published_year", "unique_id"} THEN DefaultText(f, stem)
         ELSE SanitizeFolderName(DefaultText(f, stem))
    ELSE IF f = "published_year" THEN ReplaceChars(md[f], {"?"}, "x")
    ELSE IF f = "unique_id" THEN md[f]
    ELSE SanitizeFolderName(md[f])

\* C22: in the destination each placeholder of a missing field (no key,
\* None or empty) stands for its default, 'Unknown', or 'Other' for
\* secondary_genre, or the archive's stem for name, and {published_year}
\* stands for the year with every '?' replaced by 'x'.
C22_MissingFieldsTakeDefaults ==
    Built =>
        dest_path.path =
            JoinPath(Root,
                Format(folder_template,
                       [f \in ValidFields |->
                           Expansion(metadata, zip_stem, f)]))

\* A record without a secondary genre and with a year of question marks has
\* been given its path.
C22_Witness ==
    /\ Built
    /\ Missing(metadata, "secondary_genre")
    /\ Missing(metadata, "name")
    /\ zip_stem = <<"[", "g">>
    /\ folder_template = DefaultTemplate
    /\ dest_path.path =
          <<Slash, <<"D">>, <<"A">>, Other, NoText, <<"g">>>>


-----------------------------------------------------------------------------
(* organize_games: the source archive and the publisher *)

\* The archive is still in the source directory.
InSource(zip) == \E k \in 1..Len(zips) : zips[k] = zip

\* C23: once an archive has been organized with move_files it is no longer
\* in the source directory, whether it was kept zipped or extracted;
\* without move_files it still is.
C23_MoveRemovesSource ==
    (Organized /\ last.options.program = "gb64") =>
        (last.options.move_files <=> ~InSource(last.zip))

\* The publisher the destination is to be built from: with
\* collapse_publishers the text before the first ' - ', else the parsed one.
CutAtDash(publisher, collapse) ==
    IF collapse /\ DashAt(publisher) # {}
    THEN SubSeq(publisher, 1, Min(DashAt(publisher)) - 1)
    ELSE publisher

\* The destination of the last archive when its publisher is cut at ' - '.
DashDestination(md, opt, stem) ==
    BuildDestinationPath(opt.folder_template,
        [md EXCEPT !.publisher =
            CutAtDash(md.publisher, opt.collapse_publishers)],
        stem, Root)

\* C24: an organized game's destination is built from the publisher cut at
\* its first ' - ' when collapse_publishers is on and the publisher holds
\* ' - ', and from the publisher as parsed otherwise.
C24_PublisherCutAtDash ==
    (Organized /\ last.options.program = "gb64") =>
        IsPrefix(DashDestination(ParseVersionNfo(ArchivePool[last.zip].nfo),
                                 last.options,
                                 ArchivePool[last.zip].stem).path,
                 last.candidate)


-----------------------------------------------------------------------------
(* rename_disk_files: the number of image files *)

\* The image files of a folder.
ImageFiles(fd) ==
    {p \in DOMAIN fd : fd[p].kind = "file" /\ HasImageExtension(p)}

\* C25: after rename_disk_files the folder holds as many image files as
\* before, each file that was there still there under some name.
C25_NoImageFileLost ==
    stage \in {"renamed", "rename_raised"} =>
        /\ Cardinality(ImageFiles(folder)) = Cardinality(ImageFiles(before))
        /\ \A p \in ImageFiles(before) : \E q \in ImageFiles(folder) :
              NowAt(p, q)


-----------------------------------------------------------------------------
(* Scenario 15: labels with nothing after them on their line *)

MaxBareLines == 4

\* The lines of an info file in which the name or the label can stand with
\* a value, with blanks only, or alone on its line.
BareLinePool(label) ==
    {<<"Name:", " ", "Z">>, <<"Name:">>, <<"Genre:", " ", "A">>,
     <<label, " ", "a">>, <<label>>, <<label, " ">>}

BareInit ==
    /\ stage = "input"
    /\ \E f \in DOMAIN LabelOf, n \in 0..MaxBareLines :
          \E ls \in [1..n -> BareLinePool(LabelOf[f])] :
              content = JoinLines(ls)
    /\ metadata = NoRecord
    /\ PathIdle
    /\ OrgIdle
    /\ GuiIdle
    /\ RenameIdle
    /\ IoIdle

SpecBare == BareInit /\ [][LinesNext]_vars

\* Some line of the text holds the label, and v is the trimmed text that
\* follows the label on that line.
OwnLineValue(text, label, v) ==
    \E k \in 1..Len(LinesOf(text)) :
        \E i \in 1..Len(LinesOf(text)[k]) :
            /\ LinesOf(text)[k][i] = label
            /\ v = Strip(Explode(SubSeq(LinesOf(text)[k], i + 1,
                                        Len(LinesOf(text)[k]))))

\* The label of every single-line field, the name among them.
SingleLineLabel == [f \in {"name"} |-> "Name:"] @@ LabelOf

\* C26: every single-line field of a record that is not at its default
\* holds the trimmed text that follows its label on the label's own line;
\* text of the next line is never taken for it.
C26_ValueFromLabelsOwnLine ==
    (Parsed /\ metadata # NoRecord) =>
        \A f \in DOMAIN SingleLineLabel \cap DOMAIN metadata :
            metadata[f] \notin {None, Unknown, NoText}
                => OwnLineValue(content, SingleLineLabel[f], metadata[f])


-----------------------------------------------------------------------------
(* Scenario 16: whole runs of the organization threads, with Cancel *)

\* The steps of the threads and the Cancel button.
RunNext ==
    \/ OrganizeClicked
    \/ CancelClicked
    \/ ThreadBegin
    \/ ThreadProbe
    \/ ThreadMkdir
    \/ ThreadCopytree

\* A step of thread t.
StepOf(t) ==
    /\ t \in DOMAIN threads
    /\ (ThreadBegin \/ ThreadProbe \/ ThreadMkdir \/ ThreadCopytree)
    /\ threads'[t] # threads[t]

\* Every started thread that can take a step takes one in the end.
SpecRun ==
    /\ GuiInit
    /\ [][RunNext]_vars
    /\ \A t \in 1..MaxThreads : WF_vars(StepOf(t))

\* C27: every thread that was started comes to its end having put exactly
\* one terminal message, 'done' or 'cancelled', on the queue, and never
\* puts a second one.
C27_OneTerminalMessage ==
    \A t \in 1..MaxThreads :
        /\ (t \in DOMAIN threads)
              ~> (/\ t \in DOMAIN threads
                  /\ ~IsAlive(threads[t])
                  /\ threads[t].terminal = 1)
        /\ [](t \in DOMAIN threads => threads[t].terminal <= 1)

\* C28: the poll of the queue stays scheduled: no message makes
\* _check_queue raise before it has scheduled its next call.
C28_PollStaysScheduled == polling


-----------------------------------------------------------------------------
(* organize_games: temporary directories and the summary's counts *)

\* C29: whatever _process_zip_file has done with an archive, returned or
\* raised, no temporary directory is left.
C29_NoTempDirLeft == temp_dirs = {}

\* The archive is one the English-only filter of the call passes over.
SkippedByFilter(zip, opt) ==
    /\ opt.program = "gb64"
    /\ opt.english_only
    /\ ArchivePool[zip].readable
    /\ ArchivePool[zip].has_nfo
    /\ ParsedArchive[zip] # NoRecord
    /\ NotEnglish(ParsedArchive[zip], opt.include_no_text)

\* C30: games_moved never exceeds games_found, and when the loop of
\* organize_games has visited every archive, each archive found is counted
\* once: as organized, as skipped by the language filter, or by one entry
\* of errors.
C30_EveryArchiveAccountedOnce ==
    /\ games_moved <= games_found
    /\ (stage = "running" /\ pending = <<>>) =>
          games_found =
              games_moved
                + Cardinality({k \in 1..Len(zips) :
                                  SkippedByFilter(zips[k], options)})
                + Len(errors)

=============================================================================
